---- MODULE Spec2Model ----
(***************************************************************************)
(* Navigation engine of rebuildTUI (tui::NavigationTUI, tui::Section,      *)
(* tui::SelectableItem).                                                   *)
(*                                                                         *)
(* Every method of the engine is an operator from an engine value (a       *)
(* record of the object's fields) to the engine value after the call, so   *)
(* that a method calling another method is an operator applied to the      *)
(* result of another.  Indices are 0-based as in the source; sections_[i]  *)
(* is e.sections[i + 1].                                                    *)
(*                                                                         *)
(* size_t values are kept modulo SizeMod.  The program's size_t is 64 bits *)
(* wide; the model keeps the wrap-around of unsigned subtraction with a    *)
(* modulus that fits the model checker's integers.  Every in-range value   *)
(* of the model is far below SizeMod / 2, so a value >= SizeMod / 2 is a   *)
(* wrapped ("negative") one, as with 2^64.                                 *)
(*                                                                         *)
(* fired is the list of callback invocations made by the last call, in     *)
(* order: it records the places where the source invokes a std::function   *)
(* (a callback that is not set is skipped by the source at that place),    *)
(* the calls the run loop makes on the terminal manager, and the cursor   *)
(* moves and the strings the renderer writes.                              *)
(* last_op is the name of the last call made on the engine.                *)
(* pc is the position of run(): "idle" before the call, "loop" at the top  *)
(* of its while loop, "returned" after a normal return, "unwound" after    *)
(* an exception left it, "crashed" after an invalid read stopped the       *)
(* process.                                                                *)
(* config holds the fields of config_ that the renderer reads or that the  *)
(* builder sets for it; a std::string is the sequence of its characters.   *)
(***************************************************************************)
EXTENDS Integers, Sequences, FiniteSets, TLC

VARIABLES sections, current_state, current_section_index,
          current_selection_index, current_page, items_per_page,
          needs_redraw, fired, last_op, running, raw_mode, pc, config

vars == <<sections, current_state, current_section_index,
          current_selection_index, current_page, items_per_page,
          needs_redraw, fired, last_op, running, raw_mode, pc, config>>

\* ---------------------------------------------------------------- bounds
MaxSections == 2
MaxItems == 3
MaxPerPage == 2
MaxCounter == 3
MaxText == 3
MaxWidth == 8

SectionNames == {"A", "B"}
ItemNames == {"x", "y"}

\* ------------------------------------------------------------- constants
SECTION_SELECTION == "SECTION_SELECTION"
ITEM_SELECTION == "ITEM_SELECTION"

SizeMod == 2 ^ 30

\* unsigned (size_t) subtraction and addition
USub(a, b) == (a - b + SizeMod) % SizeMod
UAdd(a, b) == (a + b) % SizeMod

Min(a, b) == IF a < b THEN a ELSE b
Max(a, b) == IF a < b THEN b ELSE a

\* ------------------------------------------------------------ data model
SelectableItem(item_name) == [name |-> item_name, selected |-> FALSE]

Section(section_name, item_names) ==
  [name |-> section_name,
   items |-> [k \in 1..Len(item_names) |-> SelectableItem(item_names[k])]]

\* std::vector::erase(begin() + index)
Erase(seq, index) ==
  [k \in 1..(Len(seq) - 1) |-> IF k <= index THEN seq[k] ELSE seq[k + 1]]

\* std::find_if over the name field: 0-based position of the first match,
\* Len(seq) for end()
FindByName(seq, name) ==
  IF \E k \in 1..Len(seq) : seq[k].name = name
  THEN (CHOOSE k \in 1..Len(seq) :
          /\ seq[k].name = name
          /\ \A j \in 1..(k - 1) : seq[j].name # name) - 1
  ELSE Len(seq)

\* the engine object as a value
Eng ==
  [sections |-> sections,
   current_state |-> current_state,
   current_section_index |-> current_section_index,
   current_selection_index |-> current_selection_index,
   current_page |-> current_page,
   items_per_page |-> items_per_page,
   needs_redraw |-> needs_redraw,
   fired |-> <<>>,
   running |-> running,
   raw_mode |-> raw_mode,
   config |-> config,
   invoked |-> 0,
   throw_at |-> 0,
   thrown |-> FALSE,
   snap |-> <<>>,
   reenter_at |-> "none",
   reenter_does |-> "nothing",
   ub |-> "stale"]

\* a call on the terminal manager
Log(e, ev) == IF e.thrown THEN e ELSE [e EXCEPT !.fired = Append(@, ev)]

\* Section::size() of sections_[i]
SectionSize(e, i) == Len(e.sections[i + 1].items)

\* ------------------------------------------------------------ pagination
\* calculate_total_pages with the division rounded down
calculate_total_pages_Floor(e) ==
  IF e.current_state = SECTION_SELECTION
  THEN 1
  ELSE IF e.current_section_index < Len(e.sections)
       THEN LET item_count == SectionSize(e, e.current_section_index)
            IN IF item_count = 0
               THEN 1
               ELSE item_count \div e.items_per_page
       ELSE 1

\* calculate_total_pages with the section list paginated as well
calculate_total_pages_SectionsPaginate(e) ==
  LET item_count ==
        IF e.current_state = SECTION_SELECTION
        THEN Len(e.sections)
        ELSE IF e.current_section_index < Len(e.sections)
             THEN SectionSize(e, e.current_section_index)
             ELSE 0
  IN IF item_count = 0
     THEN 1
     ELSE (UAdd(item_count, e.items_per_page) - 1) \div e.items_per_page

calculate_total_pages(e) ==
  IF e.current_state = SECTION_SELECTION
  THEN 1
  ELSE IF e.current_section_index < Len(e.sections)
       THEN LET item_count == SectionSize(e, e.current_section_index)
            IN IF item_count = 0
               THEN 1
               ELSE (UAdd(item_count, e.items_per_page) - 1) \div e.items_per_page
       ELSE 1

get_current_page_bounds(e) ==
  IF \/ e.current_state # ITEM_SELECTION
     \/ e.current_section_index >= Len(e.sections)
  THEN <<0, 0>>
  ELSE LET item_count == SectionSize(e, e.current_section_index)
           start == (e.current_page * e.items_per_page) % SizeMod
           end == Min(UAdd(start, e.items_per_page), item_count)
       IN <<start, end>>

clamp_selection(e) ==
  IF e.current_state = SECTION_SELECTION
  THEN IF e.current_selection_index >= Len(e.sections)
       THEN [e EXCEPT !.current_selection_index =
                        IF Len(e.sections) > 0 THEN Len(e.sections) - 1 ELSE 0]
       ELSE e
  ELSE LET bounds == get_current_page_bounds(e)
           max_selection == USub(bounds[2], bounds[1])
       IN IF e.current_selection_index >= max_selection
          THEN [e EXCEPT !.current_selection_index =
                           IF max_selection > 0 THEN max_selection - 1 ELSE 0]
          ELSE e

\* validate_indices without the clamp of current_section_index_
validate_indices_NoSectionClamp(e) == clamp_selection(e)

validate_indices(e) ==
  clamp_selection(
    IF e.current_section_index >= Len(e.sections)
    THEN [e EXCEPT !.current_section_index =
                     IF Len(e.sections) > 0 THEN Len(e.sections) - 1 ELSE 0]
    ELSE e)

add_section(e, section) ==
  [e EXCEPT !.sections = Append(@, section)]

remove_section(e, index) ==
  IF index < Len(e.sections)
  THEN validate_indices([e EXCEPT !.sections = Erase(@, index)])
  ELSE e

\* the value remove_section returns
remove_section_returns(e, index) == index < Len(e.sections)

remove_section_by_name(e, name) ==
  LET it == FindByName(e.sections, name)
  IN IF it # Len(e.sections)
     THEN validate_indices([e EXCEPT !.sections = Erase(@, it)])
     ELSE e

\* clear_sections going to SECTION_SELECTION through change_state
clear_sections_Notifying(e) ==
  LET e1 == [e EXCEPT !.sections = <<>>,
                      !.current_section_index = 0,
                      !.current_selection_index = 0,
                      !.current_page = 0,
                      !.current_state = SECTION_SELECTION]
  IN IF e.current_state # SECTION_SELECTION
     THEN Log(e1, <<"state_changed", e.current_state, SECTION_SELECTION>>)
     ELSE e1

\* clear_sections leaving the page where it was
clear_sections_KeepPage(e) ==
  [e EXCEPT !.sections = <<>>,
            !.current_section_index = 0,
            !.current_selection_index = 0,
            !.current_state = SECTION_SELECTION]

clear_sections(e) ==
  [e EXCEPT !.sections = <<>>,
            !.current_section_index = 0,
            !.current_selection_index = 0,
            !.current_page = 0,
            !.current_state = SECTION_SELECTION]

clear_items(e, s) == [e EXCEPT !.sections[s + 1].items = <<>>]

\* the calls a user callback makes on the engine
CallbackBody(e, does) ==
  CASE does = "clear_sections" -> clear_sections(e)
    [] does = "remove_section" -> remove_section(e, 0)
    [] does = "clear_items" ->
         IF e.current_section_index < Len(e.sections)
         THEN clear_items(e, e.current_section_index)
         ELSE e
    [] OTHER -> e

\* invocation of a std::function.  The throw_at-th callback invoked during
\* a call raises an exception (none does when throw_at is 0): snap keeps
\* the engine as it is at that moment, and nothing is invoked after it.
\* The callback named reenter_at calls back into the engine, once, before
\* it returns.
Fire(e, ev) ==
  IF e.thrown
  THEN e
  ELSE LET e1 == [e EXCEPT !.fired = Append(@, ev), !.invoked = @ + 1]
       IN IF e1.invoked = e.throw_at
          THEN [e1 EXCEPT !.thrown = TRUE, !.snap = e1]
          ELSE IF e.reenter_at = ev[1]
               THEN CallbackBody([e1 EXCEPT !.reenter_at = "none"],
                                 e.reenter_does)
               ELSE e1

\* a read through an index out of range or through a reference to an
\* element that was erased: undefined behaviour.  The read is recorded;
\* with ub = "fault" the process stops there, with ub = "stale" the call
\* goes on with the bytes the element left behind.
InvalidRead(e, what) ==
  IF e.thrown
  THEN e
  ELSE LET e1 == Log(e, <<"invalid_read", what>>)
       IN IF e.ub = "fault"
          THEN [e1 EXCEPT !.thrown = TRUE, !.snap = e1]
          ELSE e1

\* the engine a call leaves behind: the one at the throw when a callback
\* raised, since no frame of the engine catches
Unwound(e) == IF e.thrown THEN e.snap ELSE e

\* ------------------------------------------------------- state machine
\* change_state that notifies whether or not the state differs
change_state_Always(e, new_state) ==
  Fire([e EXCEPT !.current_state = new_state],
       <<"state_changed", e.current_state, new_state>>)

change_state(e, new_state) ==
  IF e.current_state # new_state
  THEN Fire([e EXCEPT !.current_state = new_state],
            <<"state_changed", e.current_state, new_state>>)
  ELSE e

\* return_to_sections calling trigger_exit of the section it leaves
return_to_sections_TriggerExit(e) ==
  IF e.current_state # SECTION_SELECTION
  THEN LET e1 == Fire(change_state(e, SECTION_SELECTION),
                      <<"trigger_exit", e.current_section_index>>)
       IN [e1 EXCEPT !.current_selection_index = e.current_section_index,
                     !.current_page = 0,
                     !.needs_redraw = TRUE]
  ELSE e

\* return_to_sections resetting the selection index to 0
return_to_sections_ToTop(e) ==
  IF e.current_state # SECTION_SELECTION
  THEN LET e1 == change_state(e, SECTION_SELECTION)
       IN [e1 EXCEPT !.current_selection_index = 0,
                     !.current_page = 0,
                     !.needs_redraw = TRUE]
  ELSE e

return_to_sections(e) ==
  IF e.current_state # SECTION_SELECTION
  THEN LET e1 == change_state(e, SECTION_SELECTION)
       IN [e1 EXCEPT !.current_selection_index = e1.current_section_index,
                     !.current_page = 0,
                     !.needs_redraw = TRUE]
  ELSE e

\* enter_section invoking the section's on_enter before the state change
enter_section_EnterFirst(e, section_index) ==
  IF section_index < Len(e.sections)
  THEN LET e1 == [e EXCEPT !.current_section_index = section_index,
                           !.current_selection_index = 0,
                           !.current_page = 0]
           e2 == Fire(e1, <<"on_enter", section_index>>)
           e3 == change_state(e2, ITEM_SELECTION)
           e4 == Fire(e3, <<"section_selected", section_index,
                            e3.sections[section_index + 1].name>>)
       IN [e4 EXCEPT !.needs_redraw = TRUE]
  ELSE e

\* enter_section keeping the page of the section it leaves
enter_section_KeepPage(e, section_index) ==
  IF section_index < Len(e.sections)
  THEN LET e1 == [e EXCEPT !.current_section_index = section_index,
                           !.current_selection_index = 0]
           e2 == change_state(e1, ITEM_SELECTION)
           e3 == Fire(e2, <<"on_enter", section_index>>)
           e4 == Fire(e3, <<"section_selected", section_index,
                            e3.sections[section_index + 1].name>>)
       IN [e4 EXCEPT !.needs_redraw = TRUE]
  ELSE e

\* section is the reference taken after change_state; it refers to an
\* element of sections_ as long as no element was erased since
\* enter_section from the call of on_section_selected_ on: e is the engine
\* at the call, e2 the engine after change_state, e3 the engine after
\* trigger_enter.  section is a reference taken before trigger_enter; it
\* is valid as long as no section was erased since.
enter_section_selected(e, e2, e3, section_index) ==
  LET bound == section_index < Len(e2.sections)
      live == bound /\ Len(e3.sections) = Len(e2.sections)
      section == IF live
                 THEN e3.sections[section_index + 1]
                 ELSE e.sections[section_index + 1]
  IN [Fire(IF live \/ ~bound THEN e3 ELSE InvalidRead(e3, "section"),
           <<"section_selected", section_index, section.name>>)
      EXCEPT !.needs_redraw = TRUE]

\* enter_section from auto &section = sections_[section_index] on: the
\* index is not checked again after change_state
enter_section_triggered(e, e2, section_index) ==
  enter_section_selected(
    e, e2,
    Fire(IF section_index < Len(e2.sections)
         THEN e2
         ELSE InvalidRead(e2, "sections_"),
         <<"on_enter", section_index>>),
    section_index)

enter_section(e, section_index) ==
  IF section_index < Len(e.sections)
  THEN enter_section_triggered(
         e,
         change_state([e EXCEPT !.current_section_index = section_index,
                                !.current_selection_index = 0,
                                !.current_page = 0],
                      ITEM_SELECTION),
         section_index)
  ELSE e

\* go_to_page without the test page != current_page_
go_to_page_SamePage(e, page) ==
  LET total_pages == calculate_total_pages(e)
  IN IF page >= 0 /\ page < total_pages
     THEN [Fire([e EXCEPT !.current_page = page,
                          !.current_selection_index = 0],
                <<"page_changed", page, total_pages>>)
           EXCEPT !.needs_redraw = TRUE]
     ELSE e

\* go_to_page without the upper bound on the page
go_to_page_NoUpperBound(e, page) ==
  IF page >= 0 /\ page # e.current_page
  THEN [Fire([e EXCEPT !.current_page = page,
                       !.current_selection_index = 0],
             <<"page_changed", page, calculate_total_pages(e)>>)
        EXCEPT !.needs_redraw = TRUE]
  ELSE e

go_to_page(e, page) ==
  LET total_pages == calculate_total_pages(e)
  IN IF page >= 0 /\ page < total_pages /\ page # e.current_page
     THEN [Fire([e EXCEPT !.current_page = page,
                          !.current_selection_index = 0],
                <<"page_changed", page, total_pages>>)
           EXCEPT !.needs_redraw = TRUE]
     ELSE e

next_page(e) == go_to_page(e, e.current_page + 1)

previous_page(e) == go_to_page(e, e.current_page - 1)

\* move_selection_up landing one past the last index of the previous page
move_selection_up_PastEnd(e) ==
  LET moved ==
        IF e.current_state = SECTION_SELECTION
        THEN IF e.current_selection_index > 0
             THEN [e EXCEPT !.current_selection_index = @ - 1]
             ELSE e
        ELSE IF e.current_selection_index > 0
             THEN [e EXCEPT !.current_selection_index = @ - 1]
             ELSE IF e.current_page > 0
                  THEN LET e1 == go_to_page(e, e.current_page - 1)
                           bounds == get_current_page_bounds(e1)
                       IN [e1 EXCEPT !.current_selection_index =
                                       USub(bounds[2], bounds[1])]
                  ELSE e
  IN [moved EXCEPT !.needs_redraw = TRUE]

move_selection_up(e) ==
  LET moved ==
        IF e.current_state = SECTION_SELECTION
        THEN IF e.current_selection_index > 0
             THEN [e EXCEPT !.current_selection_index = @ - 1]
             ELSE e
        ELSE IF e.current_selection_index > 0
             THEN [e EXCEPT !.current_selection_index = @ - 1]
             ELSE IF e.current_page > 0
                  THEN LET e1 == go_to_page(e, e.current_page - 1)
                           bounds == get_current_page_bounds(e1)
                       IN [e1 EXCEPT !.current_selection_index =
                                       USub(USub(bounds[2], bounds[1]), 1)]
                  ELSE e
  IN [moved EXCEPT !.needs_redraw = TRUE]

move_selection_down(e) ==
  LET moved ==
        IF e.current_state = SECTION_SELECTION
        THEN IF e.current_selection_index < USub(Len(e.sections), 1)
             THEN [e EXCEPT !.current_selection_index = UAdd(@, 1)]
             ELSE e
        ELSE LET bounds == get_current_page_bounds(e)
                 items_on_page == USub(bounds[2], bounds[1])
             IN IF e.current_selection_index < USub(items_on_page, 1)
                THEN [e EXCEPT !.current_selection_index = UAdd(@, 1)]
                ELSE LET total_pages == calculate_total_pages(e)
                     IN IF e.current_page < total_pages - 1
                        THEN [go_to_page(e, e.current_page + 1)
                              EXCEPT !.current_selection_index = 0]
                        ELSE e
  IN [moved EXCEPT !.needs_redraw = TRUE]

\* ------------------------------------------------- item and section ops
\* SelectableItem::toggle of items[index] of sections_[s]; the value of
\* the call is the new selected flag, read back from the item
item_toggle(e, s, index) ==
  LET new_state == ~e.sections[s + 1].items[index + 1].selected
  IN Fire([e EXCEPT !.sections[s + 1].items[index + 1].selected = new_state],
          <<"on_toggle", s, index, new_state>>)

\* Section::toggle_item invoking the section's callback before the item is
\* toggled
toggle_item_SectionFirst(e, s, index) ==
  IF index < SectionSize(e, s)
  THEN LET new_state == ~e.sections[s + 1].items[index + 1].selected
       IN [eng |-> item_toggle(Fire(e, <<"on_item_toggled", s, index,
                                        new_state>>), s, index),
           ret |-> TRUE]
  ELSE [eng |-> e, ret |-> FALSE]

\* Section::toggle_item of sections_[s]: the engine after the call and the
\* value returned
\* Section::toggle_item after items_[index].toggle() returned into e1: the
\* section's callback gets the flag read through items_[index]
toggle_item_notified(e, e1, s, index) ==
  LET section_alive == Len(e1.sections) = Len(e.sections)
      item_alive == section_alive /\ index < SectionSize(e1, s)
      new_state == IF item_alive
                   THEN e1.sections[s + 1].items[index + 1].selected
                   ELSE ~e.sections[s + 1].items[index + 1].selected
  IN Fire(IF item_alive
          THEN e1
          ELSE InvalidRead(e1, IF section_alive THEN "item" ELSE "section"),
          <<"on_item_toggled", s, index, new_state>>)

toggle_item(e, s, index) ==
  IF index < SectionSize(e, s)
  THEN [eng |-> toggle_item_notified(e, item_toggle(e, s, index), s, index),
        ret |-> TRUE]
  ELSE [eng |-> e, ret |-> FALSE]

remove_item(e, s, index) ==
  IF index < SectionSize(e, s)
  THEN [eng |-> [e EXCEPT !.sections[s + 1].items = Erase(@, index)],
        ret |-> TRUE]
  ELSE [eng |-> e, ret |-> FALSE]

remove_item_by_name(e, s, name) ==
  LET it == FindByName(e.sections[s + 1].items, name)
  IN IF it # SectionSize(e, s)
     THEN [eng |-> [e EXCEPT !.sections[s + 1].items = Erase(@, it)],
           ret |-> TRUE]
     ELSE [eng |-> e, ret |-> FALSE]

\* toggle_current_item with the index taken relative to the page only
toggle_current_item_PageRelative(e) ==
  IF /\ e.current_state = ITEM_SELECTION
     /\ e.current_section_index < Len(e.sections)
  THEN LET global_index == e.current_selection_index
           r == toggle_item(e, e.current_section_index, global_index)
       IN IF r.ret
          THEN LET item == r.eng.sections[e.current_section_index + 1]
                                .items[global_index + 1]
               IN [Fire(r.eng, <<"item_toggled", e.current_section_index,
                                 global_index, item.selected>>)
                   EXCEPT !.needs_redraw = TRUE]
          ELSE r.eng
  ELSE e

\* toggle_current_item after Section::toggle_item returned true into e1:
\* sections_[current_section_index_] is read without a check, get_item
\* checks global_index
toggle_current_item_notified(e1, global_index) ==
  LET s == e1.current_section_index
  IN [(IF s < Len(e1.sections)
       THEN IF global_index < SectionSize(e1, s)
            THEN Fire(e1, <<"item_toggled", s, global_index,
                            e1.sections[s + 1]
                              .items[global_index + 1].selected>>)
            ELSE e1
       ELSE InvalidRead(e1, "sections_"))
      EXCEPT !.needs_redraw = TRUE]

toggle_current_item_toggled(r, global_index) ==
  IF r.ret THEN toggle_current_item_notified(r.eng, global_index) ELSE r.eng

toggle_current_item(e) ==
  IF /\ e.current_state = ITEM_SELECTION
     /\ e.current_section_index < Len(e.sections)
  THEN toggle_current_item_toggled(
         toggle_item(e, e.current_section_index,
                     UAdd(get_current_page_bounds(e)[1],
                          e.current_selection_index)),
         UAdd(get_current_page_bounds(e)[1], e.current_selection_index))
  ELSE e

\* select_current_item entering the section entered before
select_current_item_EnterPrevious(e) ==
  IF e.current_state = SECTION_SELECTION
  THEN IF e.current_selection_index < Len(e.sections)
       THEN enter_section(e, e.current_section_index)
       ELSE e
  ELSE toggle_current_item(e)

select_current_item(e) ==
  IF e.current_state = SECTION_SELECTION
  THEN IF e.current_selection_index < Len(e.sections)
       THEN enter_section(e, e.current_selection_index)
       ELSE e
  ELSE toggle_current_item(e)

\* SelectableItem::set_selected that assigns and notifies whatever the
\* flag was
item_set_selected_Always(e, s, index, new_state) ==
  [eng |-> Fire([e EXCEPT
                   !.sections[s + 1].items[index + 1].selected = new_state],
                <<"on_toggle", s, index, new_state>>),
   ret |-> TRUE]

\* SelectableItem::set_selected of items[index] of sections_[s]: the
\* engine after the call and the value returned (whether the flag changed)
item_set_selected(e, s, index, new_state) ==
  IF e.sections[s + 1].items[index + 1].selected # new_state
  THEN [eng |-> Fire([e EXCEPT
                        !.sections[s + 1].items[index + 1].selected = new_state],
                     <<"on_toggle", s, index, new_state>>),
        ret |-> TRUE]
  ELSE [eng |-> e, ret |-> FALSE]

\* Section::set_item_selected of sections_[s]
set_item_selected(e, s, index, selected) ==
  IF index < SectionSize(e, s)
  THEN LET changed == item_set_selected(e, s, index, selected)
       IN IF changed.ret
          THEN [eng |-> Fire(changed.eng,
                             <<"on_item_toggled", s, index, selected>>),
                ret |-> TRUE]
          ELSE changed
  ELSE [eng |-> e, ret |-> FALSE]

\* the loop of clear_selections and select_all notifying for every item
RECURSIVE set_all_from_NotifyAll(_, _, _, _)
set_all_from_NotifyAll(e, s, i, selected) ==
  IF i < SectionSize(e, s)
  THEN set_all_from_NotifyAll(
         Fire(item_set_selected(e, s, i, selected).eng,
              <<"on_item_toggled", s, i, selected>>),
         s, i + 1, selected)
  ELSE e

\* the loop of Section::clear_selections (selected = FALSE) and of
\* Section::select_all (selected = TRUE) from item i on
RECURSIVE set_all_from(_, _, _, _)
set_all_from(e, s, i, selected) ==
  IF i < SectionSize(e, s)
  THEN IF e.sections[s + 1].items[i + 1].selected # selected
       THEN set_all_from(
              Fire(item_set_selected(e, s, i, selected).eng,
                   <<"on_item_toggled", s, i, selected>>),
              s, i + 1, selected)
       ELSE set_all_from(e, s, i + 1, selected)
  ELSE e

clear_selections(e, s) == set_all_from(e, s, 0, FALSE)

\* select_all leaving the first item as it is
select_all_SkipFirst(e, s) == set_all_from(e, s, 1, TRUE)

select_all(e, s) == set_all_from(e, s, 0, TRUE)

\* the loop of clear_all_selections from section s on
RECURSIVE clear_all_from(_, _)
clear_all_from(e, s) ==
  IF s < Len(e.sections)
  THEN clear_all_from(clear_selections(e, s), s + 1)
  ELSE e

clear_all_selections(e) ==
  [clear_all_from(e, 0) EXCEPT !.needs_redraw = TRUE]

\* clear_section_selections putting the cursor on the first entry
clear_section_selections_ToTop(e, section_index) ==
  IF section_index < Len(e.sections)
  THEN [clear_selections(e, section_index)
          EXCEPT !.needs_redraw = TRUE, !.current_selection_index = 0]
  ELSE e

clear_section_selections(e, section_index) ==
  IF section_index < Len(e.sections)
  THEN [clear_selections(e, section_index) EXCEPT !.needs_redraw = TRUE]
  ELSE e

\* the loop of Section::invert_selections from item i on
RECURSIVE invert_from(_, _, _)
invert_from(e, s, i) ==
  IF i < SectionSize(e, s)
  THEN LET e1 == item_toggle(e, s, i)
           new_state == e1.sections[s + 1].items[i + 1].selected
       IN invert_from(Fire(e1, <<"on_item_toggled", s, i, new_state>>),
                      s, i + 1)
  ELSE e

invert_selections(e, s) == invert_from(e, s, 0)

\* -------------------------------------------------------- rendering
\* std::string(n, c)
Repeat(n, c) == [k \in 1..n |-> c]

\* int / int of C++: the quotient truncated toward zero
TruncDiv(a, b) == IF a >= 0 THEN a \div b ELSE -((-a) \div b)

\* std::clamp(v, lo, hi)
clamp(v, lo, hi) == IF v < lo THEN lo ELSE IF hi < v THEN hi ELSE v

\* std::to_string of a size_t
RECURSIVE to_string(_)
to_string(n) ==
  LET digit == << "0", "1", "2", "3", "4", "5", "6", "7", "8", "9" >>
  IN IF n < 10
     THEN << digit[n + 1] >>
     ELSE to_string(n \div 10) \o << digit[(n % 10) + 1] >>

\* the characters of a name of the model (its names are one character long)
NameChars(name) == << name >>

\* Section::get_selected_count of sections_[s]
get_selected_count(e, s) ==
  Cardinality({k \in 1..Len(e.sections[s + 1].items) :
                 e.sections[s + 1].items[k].selected})

\* center_string rounding the padding up
center_string_RoundUp(text, width) ==
  IF Len(text) >= width
  THEN text
  ELSE Repeat((width - Len(text) + 1) \div 2, " ") \o text

center_string(text, width) ==
  IF Len(text) >= width
  THEN text
  ELSE LET padding == (width - Len(text)) \div 2
       IN Repeat(IF padding < 0 THEN 0 ELSE padding, " ") \o text

get_effective_content_width(e, term_width) ==
  LET content_width == term_width - 4
  IN IF e.config.auto_resize_content
     THEN clamp(content_width, e.config.min_content_width,
                e.config.max_content_width)
     ELSE e.config.max_content_width

\* the text render_section_selection composes for sections_[i] before it
\* hands it to center_string
section_line(e, i) ==
  LET total_count == SectionSize(e, i)
      display_text ==
        to_string(i + 1) \o << ".", " " >> \o NameChars(e.sections[i + 1].name)
      counters ==
        IF e.config.show_counters /\ total_count > 0
        THEN << " ", "(" >> \o to_string(get_selected_count(e, i)) \o << "/" >>
               \o to_string(total_count) \o << ")" >>
        ELSE << >>
      prefix == IF i = e.current_selection_index
                THEN << ">", " " >>
                ELSE << " ", " " >>
  IN prefix \o display_text \o counters

\* the texts render_section_selection hands to center_string, in order:
\* the title, its underline and one line per section
section_selection_texts(e) ==
  << e.config.section_selection_title,
     Repeat(Len(e.config.section_selection_title), "=") >>
  \o [k \in 1..Len(e.sections) |-> section_line(e, k - 1)]

\* the rows render_section_selection moves the cursor to before each text
section_selection_rows(e, start_row) ==
  << start_row, start_row + 1 >>
  \o [k \in 1..Len(e.sections) |-> start_row + 3 + (k - 1)]

RECURSIVE render_lines(_, _, _, _, _, _)
render_lines(e, texts, rows, left_padding, content_width, k) ==
  IF k <= Len(texts)
  THEN render_lines(
         Log(Log(e, <<"move_cursor", rows[k], left_padding>>),
             <<"cout", center_string(texts[k], content_width)>>),
         texts, rows, left_padding, content_width, k + 1)
  ELSE e

render_section_selection(e, start_row, left_padding, content_width) ==
  render_lines(e, section_selection_texts(e),
               section_selection_rows(e, start_row),
               left_padding, content_width, 1)

\* ------------------------------------------------------------ input
\* the characters of the key events; "NUL" is the character of a key that
\* has none
DigitChars == <<"0", "1", "2", "3", "4", "5", "6", "7", "8", "9">>

isdigit(character) == \E k \in 1..Len(DigitChars) : DigitChars[k] = character

\* digit - '0'
DigitValue(digit) ==
  (CHOOSE k \in 1..Len(DigitChars) : DigitChars[k] = digit) - 1

exit(e) == [e EXCEPT !.running = FALSE]

\* handle_number_input with number <= size + 1 in place of number <= size
handle_number_input_OnePast(e, digit) ==
  LET number == DigitValue(digit)
  IN IF e.current_state = SECTION_SELECTION
     THEN IF number > 0 /\ number <= Len(e.sections) + 1
          THEN enter_section(e, number)
          ELSE e
     ELSE IF number > 0
          THEN go_to_page(e, number - 1)
          ELSE e

handle_number_input(e, digit) ==
  LET number == DigitValue(digit)
  IN IF e.current_state = SECTION_SELECTION
     THEN IF number > 0 /\ number <= Len(e.sections)
          THEN enter_section(e, number - 1)
          ELSE e
     ELSE IF number > 0
          THEN go_to_page(e, number - 1)
          ELSE e

\* handle_item_input forwarding a digit to handle_number_input in either
\* state
handle_item_input_DigitsAnywhere(e, key, character, enable_vim_keys) ==
  CASE key = "ESCAPE" -> return_to_sections(e)
    [] key = "ARROW_UP" -> move_selection_up(e)
    [] key = "ARROW_DOWN" -> move_selection_down(e)
    [] key = "ARROW_LEFT" -> previous_page(e)
    [] key = "ARROW_RIGHT" -> next_page(e)
    [] key = "SPACE" -> toggle_current_item(e)
    [] key = "ENTER" ->
         IF e.current_state = ITEM_SELECTION
         THEN return_to_sections(e)
         ELSE select_current_item(e)
    [] key = "NORMAL" ->
         IF isdigit(character)
         THEN handle_number_input(e, character)
         ELSE IF e.current_state = ITEM_SELECTION
         THEN IF character = "b"
              THEN return_to_sections(e)
              ELSE IF character \in {"a", "n"}
                   THEN IF e.current_section_index < Len(e.sections)
                        THEN [(IF character = "a"
                               THEN select_all(e, e.current_section_index)
                               ELSE clear_selections(e, e.current_section_index))
                              EXCEPT !.needs_redraw = TRUE]
                        ELSE e
                   ELSE e
         ELSE e
    [] OTHER ->
         IF enable_vim_keys
         THEN CASE character = "j" -> move_selection_down(e)
                [] character = "k" -> move_selection_up(e)
                [] character = "h" -> return_to_sections(e)
                [] OTHER -> e
         ELSE e

\* handle_item_input whose ENTER key selects in either state
handle_item_input_EnterSelects(e, key, character, enable_vim_keys) ==
  CASE key = "ESCAPE" -> return_to_sections(e)
    [] key = "ARROW_UP" -> move_selection_up(e)
    [] key = "ARROW_DOWN" -> move_selection_down(e)
    [] key = "ARROW_LEFT" -> previous_page(e)
    [] key = "ARROW_RIGHT" -> next_page(e)
    [] key = "SPACE" -> toggle_current_item(e)
    [] key = "ENTER" -> select_current_item(e)
    [] key = "NORMAL" ->
         IF e.current_state = ITEM_SELECTION
         THEN IF character = "b"
              THEN return_to_sections(e)
              ELSE IF character \in {"a", "n"}
                   THEN IF e.current_section_index < Len(e.sections)
                        THEN [(IF character = "a"
                               THEN select_all(e, e.current_section_index)
                               ELSE clear_selections(e, e.current_section_index))
                              EXCEPT !.needs_redraw = TRUE]
                        ELSE e
                   ELSE e
         ELSE IF isdigit(character)
              THEN handle_number_input(e, character)
              ELSE e
    [] OTHER ->
         IF enable_vim_keys
         THEN CASE character = "j" -> move_selection_down(e)
                [] character = "k" -> move_selection_up(e)
                [] character = "h" -> return_to_sections(e)
                [] OTHER -> e
         ELSE e

\* enable_vim_keys is config_.enable_vim_keys at the time of the event
handle_item_input(e, key, character, enable_vim_keys) ==
  CASE key = "ESCAPE" -> return_to_sections(e)
    [] key = "ARROW_UP" -> move_selection_up(e)
    [] key = "ARROW_DOWN" -> move_selection_down(e)
    [] key = "ARROW_LEFT" -> previous_page(e)
    [] key = "ARROW_RIGHT" -> next_page(e)
    [] key = "SPACE" -> toggle_current_item(e)
    [] key = "ENTER" ->
         IF e.current_state = ITEM_SELECTION
         THEN return_to_sections(e)
         ELSE select_current_item(e)
    [] key = "NORMAL" ->
         IF e.current_state = ITEM_SELECTION
         THEN IF character = "b"
              THEN return_to_sections(e)
              ELSE IF character \in {"a", "n"}
                   THEN IF e.current_section_index < Len(e.sections)
                        THEN [(IF character = "a"
                               THEN select_all(e, e.current_section_index)
                               ELSE clear_selections(e, e.current_section_index))
                              EXCEPT !.needs_redraw = TRUE]
                        ELSE e
                   ELSE e
         ELSE IF isdigit(character)
              THEN handle_number_input(e, character)
              ELSE e
    [] OTHER ->
         IF enable_vim_keys
         THEN CASE character = "j" -> move_selection_down(e)
                [] character = "k" -> move_selection_up(e)
                [] character = "h" -> return_to_sections(e)
                [] OTHER -> e
         ELSE e

\* what the custom command callback does when it is invoked: "unset" is
\* no callback; "decline" returns false; "handled" returns true;
\* "clear" calls clear_sections() on the engine and returns true; "exit"
\* calls exit() on the engine and returns true
Hooks == {"unset", "decline", "handled", "clear", "exit"}

HookHandled(hook) == hook \in {"handled", "clear", "exit"}

HookEffect(e, hook) ==
  CASE hook = "clear" -> clear_sections(e)
    [] hook = "exit" -> exit(e)
    [] OTHER -> e

\* handle_input that goes on to the state-specific handling after the
\* callback reported the event handled
handle_input_NotSkipped(e, key, character, hook, enable_vim_keys) ==
  IF character \in {"q", "Q"}
  THEN exit(e)
  ELSE IF hook # "unset"
       THEN LET asked == Fire(e, <<"custom_command", character,
                                   e.current_state>>)
                e1 == HookEffect(asked, hook)
            IN handle_item_input(e1, key, character, enable_vim_keys)
       ELSE handle_item_input(e, key, character, enable_vim_keys)

\* handle_input that leaves running_ untouched on the quit character
handle_input_NoQuit(e, key, character, hook, enable_vim_keys) ==
  IF character \in {"q", "Q"}
  THEN e
  ELSE IF hook # "unset"
       THEN LET asked == Fire(e, <<"custom_command", character,
                                   e.current_state>>)
                e1 == HookEffect(asked, hook)
            IN IF HookHandled(hook)
               THEN e1
               ELSE handle_item_input(e1, key, character, enable_vim_keys)
       ELSE handle_item_input(e, key, character, enable_vim_keys)

handle_input(e, key, character, hook, enable_vim_keys) ==
  IF character \in {"q", "Q"}
  THEN exit(e)
  ELSE IF hook # "unset"
       THEN LET asked == Fire(e, <<"custom_command", character,
                                   e.current_state>>)
                e1 == HookEffect(asked, hook)
            IN IF HookHandled(hook)
               THEN e1
               ELSE handle_item_input(e1, key, character, enable_vim_keys)
       ELSE handle_item_input(e, key, character, enable_vim_keys)

\* a key event is <<key, character>>; <<>> is get_key_input() returning
\* no event
process_events(e, key_event, hook, enable_vim_keys) ==
  LET e1 == Log(e, <<"get_key_input">>)
  IN IF key_event # <<>>
     THEN handle_input(e1, key_event[1], key_event[2], hook, enable_vim_keys)
     ELSE e1

\* --------------------------------------------------------------- run
\* TerminalManager::setup_terminal and restore_terminal
setup_terminal(e) == [Log(e, <<"setup_terminal">>) EXCEPT !.raw_mode = TRUE]

restore_terminal(e) ==
  [Log(e, <<"restore_terminal">>) EXCEPT !.raw_mode = FALSE]

initialize(e) ==
  [validate_indices(setup_terminal(e)) EXCEPT !.needs_redraw = TRUE]

\* run() that leaves running_ as it finds it
run_enter_KeepRunning(e) ==
  IF Len(e.sections) = 0 THEN e ELSE initialize(e)

\* run() that starts its loop without looking at the section list
run_enter_NoCheck(e) == [initialize(e) EXCEPT !.running = TRUE]

\* run() up to the top of its loop; it returns at once without sections
run_enter(e) ==
  IF Len(e.sections) = 0
  THEN e
  ELSE [initialize(e) EXCEPT !.running = TRUE]

\* one pass of the body of the loop of run()
run_iteration(e, key_event, hook, enable_vim_keys) ==
  LET e1 == IF e.needs_redraw
            THEN [Log(e, <<"render">>) EXCEPT !.needs_redraw = FALSE]
            ELSE e
  IN process_events(e1, key_event, hook, enable_vim_keys)

\* run() after its loop, with the exit callback invoked first
run_leave_ExitFirst(e) ==
  restore_terminal(Fire(e, <<"on_exit", e.sections>>))

\* run() after its loop
run_leave(e) ==
  Fire(restore_terminal(e), <<"on_exit", e.sections>>)

\* ---------------------------------------------------------------- actions
\* a size_t the model can hold: a small value, or one that wrapped below
\* zero by a small amount (this caps the counter where the source lets it
\* run on)
Representable(n) == n <= MaxCounter \/ n >= SizeMod - (MaxItems + 2)

\* the engine becomes e and run() is at next_pc; op is the call that was
\* made
Step(e, op, next_pc) ==
  /\ Representable(e.current_selection_index)
  /\ sections' = e.sections
  /\ current_state' = e.current_state
  /\ current_section_index' = e.current_section_index
  /\ current_selection_index' = e.current_selection_index
  /\ current_page' = e.current_page
  /\ items_per_page' = e.items_per_page
  /\ needs_redraw' = e.needs_redraw
  /\ fired' = e.fired
  /\ running' = e.running
  /\ raw_mode' = e.raw_mode
  /\ config' = e.config
  /\ last_op' = op
  /\ pc' = next_pc

\* a call made on the engine from outside run()
Call(e, op) == Step(e, op, pc)

\* the names given to the items of a new section: "x", "y", "y", ...
ItemNameAt(k) == IF k = 1 THEN "x" ELSE "y"

\* the name given to the k-th section of a collection: "A", "B", "B", ...
SectionNameAt(k) == IF k = 1 THEN "A" ELSE "B"

NewSection(section_name, n) ==
  Section(section_name, [k \in 1..n |-> ItemNameAt(k)])

SectionIndexes == 0..MaxSections
ItemIndexes == 0..MaxItems
PageArgs == -1..MaxItems

\* number of items in a section collection
RECURSIVE TotalItems(_)
TotalItems(secs) ==
  IF secs = <<>> THEN 0 ELSE Len(Head(secs).items) + TotalItems(Tail(secs))

AddSection ==
  /\ Len(sections) < MaxSections
  /\ \E n \in 0..MaxItems :
       /\ TotalItems(sections) + n <= MaxItems
       /\ Call(add_section(Eng, NewSection(SectionNameAt(Len(sections) + 1), n)),
               "add_section")

RemoveSectionStep(index) ==
  Call(remove_section(Eng, index), "remove_section")

RemoveSection == \E index \in SectionIndexes : RemoveSectionStep(index)

RemoveSectionByNameStep(section_name) ==
  Call(remove_section_by_name(Eng, section_name), "remove_section_by_name")

RemoveSectionByName ==
  \E section_name \in SectionNames : RemoveSectionByNameStep(section_name)

ClearSections == Call(clear_sections(Eng), "clear_sections")

\* the item-removal calls are made on the section the engine points at
\* (get_section(get_current_section_index())->remove_item(...))
RemoveItemStep(index) ==
  /\ current_section_index < Len(sections)
  /\ Call(remove_item(Eng, current_section_index, index).eng, "remove_item")

RemoveItem == \E index \in ItemIndexes : RemoveItemStep(index)

RemoveItemByNameStep(item_name) ==
  /\ current_section_index < Len(sections)
  /\ Call(remove_item_by_name(Eng, current_section_index, item_name).eng,
          "remove_item_by_name")

RemoveItemByName == \E item_name \in ItemNames : RemoveItemByNameStep(item_name)

ClearItems ==
  /\ current_section_index < Len(sections)
  /\ Call(clear_items(Eng, current_section_index), "clear_items")

EnterSectionStep(section_index) ==
  Call(enter_section(Eng, section_index), "enter_section")

EnterSection ==
  \E section_index \in SectionIndexes : EnterSectionStep(section_index)

ReturnToSections == Call(return_to_sections(Eng), "return_to_sections")

GoToPageStep(page) == Call(go_to_page(Eng, page), "go_to_page")

GoToPage == \E page \in PageArgs : GoToPageStep(page)

NextPage == Call(next_page(Eng), "next_page")

PreviousPage == Call(previous_page(Eng), "previous_page")

MoveSelectionUp == Call(move_selection_up(Eng), "move_selection_up")

MoveSelectionDown == Call(move_selection_down(Eng), "move_selection_down")

ToggleCurrentItem ==
  Call(toggle_current_item(Eng), "toggle_current_item")

SelectCurrentItem ==
  Call(select_current_item(Eng), "select_current_item")

\* calls made on the section the engine points at
ToggleItemStep(index) ==
  /\ current_section_index < Len(sections)
  /\ Call(toggle_item(Eng, current_section_index, index).eng, "toggle_item")

ToggleItem == \E index \in ItemIndexes : ToggleItemStep(index)

SetItemSelectedStep(index, selected) ==
  /\ current_section_index < Len(sections)
  /\ Call(set_item_selected(Eng, current_section_index, index, selected).eng,
          "set_item_selected")

SetItemSelected ==
  \E index \in ItemIndexes, selected \in BOOLEAN :
    SetItemSelectedStep(index, selected)

HandleNumberInputStep(digit) ==
  Call(handle_number_input(Eng, digit), "handle_number_input")

HandleNumberInput ==
  \E k \in 1..Len(DigitChars) : HandleNumberInputStep(DigitChars[k])

\* the key events the terminal delivers
SpecialKeys ==
  {"ESCAPE", "ARROW_UP", "ARROW_DOWN", "ARROW_LEFT", "ARROW_RIGHT", "SPACE",
   "ENTER"}

NormalChars == {"q", "Q", "b", "a", "n", "z", "0", "1", "2", "9"}

\* the keys of the default branch of handle_item_input
VimKeyEvents == {<<"KEY_J", "j">>, <<"KEY_K", "k">>, <<"KEY_H", "h">>}

KeyEvents ==
  {<<key, "NUL">> : key \in SpecialKeys}
    \cup {<<"NORMAL", character>> : character \in NormalChars}
    \cup VimKeyEvents

\* config_.enable_vim_keys is read for the keys of the default branch only
VimSettings(key_event) ==
  IF key_event \in VimKeyEvents THEN BOOLEAN ELSE {FALSE}

\* the engine at the start of a call during which the first callback
\* invoked raises (throws) or no callback raises
EngThrowing(throws) == [Eng EXCEPT !.throw_at = IF throws THEN 1 ELSE 0]

\* the name of the call of handle_input made for a key event
KeyOp(key_event) ==
  "handle_input(" \o key_event[1] \o ", " \o key_event[2] \o ")"

\* handle_input called with a key event that no custom command callback
\* claims
HandleInput ==
  \E key_event \in KeyEvents, hook \in {"unset", "decline"} :
    \E enable_vim_keys \in VimSettings(key_event) :
      Call(handle_input(Eng, key_event[1], key_event[2], hook,
                        enable_vim_keys),
           KeyOp(key_event))

RunEnter ==
  /\ pc = "idle"
  /\ Step(run_enter(Eng), "run_enter",
          IF Len(sections) = 0 THEN "returned" ELSE "loop")

RunIterationStep(key_event, hook, enable_vim_keys, throws) ==
  /\ pc = "loop"
  /\ running
  /\ LET r == run_iteration(EngThrowing(throws), key_event, hook,
                            enable_vim_keys)
     IN Step(Unwound(r), "run_iteration",
             IF r.thrown THEN "unwound" ELSE "loop")

RunIteration ==
  \E key_event \in KeyEvents \cup {<<>>}, hook \in Hooks,
     throws \in BOOLEAN :
    \E enable_vim_keys \in VimSettings(key_event) :
      RunIterationStep(key_event, hook, enable_vim_keys, throws)

RunLeaveStep(throws) ==
  /\ pc = "loop"
  /\ ~running
  /\ LET r == run_leave(EngThrowing(throws))
     IN Step(Unwound(r), "run_leave",
             IF r.thrown THEN "unwound" ELSE "returned")

RunLeave == \E throws \in BOOLEAN : RunLeaveStep(throws)

\* the engine at the start of a call during which the callback named at
\* calls back into the engine
EngReentering(at, does, ub) ==
  [Eng EXCEPT !.reenter_at = at, !.reenter_does = does, !.ub = ub]

\* the ways a call can be reentered: not at all, or by one of the
\* callbacks in points calling one of the documented mutations, with
\* either outcome of an invalid read
Reentries(points) ==
  {<<"none", "nothing", "stale">>}
    \cup (points \X {"clear_sections", "remove_section", "clear_items"}
                 \X {"stale", "fault"})

\* a call during which a callback may reenter the engine: the call returns,
\* or the process stops at the invalid read
CallOrCrash(r, op) ==
  /\ pc = "idle"
  /\ Step(Unwound(r), op, IF r.thrown THEN "crashed" ELSE pc)

EnterSectionReentered ==
  \E section_index \in SectionIndexes,
     way \in Reentries({"state_changed", "on_enter", "section_selected"}) :
    CallOrCrash(enter_section(EngReentering(way[1], way[2], way[3]),
                              section_index),
                "enter_section")

ToggleCurrentItemReentered ==
  \E way \in Reentries({"on_toggle", "on_item_toggled", "item_toggled"}) :
    CallOrCrash(toggle_current_item(EngReentering(way[1], way[2], way[3])),
                "toggle_current_item")

\* handle_input whose custom command callback calls back into the engine
\* and returns false
HandleInputReentered ==
  \E key_event \in {<<key, "NUL">> : key \in SpecialKeys}
                      \cup {<<"NORMAL", "a">>, <<"NORMAL", "1">>},
     way \in Reentries({"custom_command"}) :
    CallOrCrash(handle_input(EngReentering(way[1], way[2], way[3]),
                             key_event[1], key_event[2], "decline", FALSE),
                "handle_input")

\* exit() called before run()
ExitBeforeRun ==
  /\ pc = "idle"
  /\ last_op # "exit"
  /\ Call(exit(Eng), "exit")

\* the passes of the loop and the end of run() when no callback raises
RunIterationCalm ==
  \E key_event \in KeyEvents \cup {<<>>}, hook \in Hooks :
    \E enable_vim_keys \in VimSettings(key_event) :
      RunIterationStep(key_event, hook, enable_vim_keys, FALSE)

\* a pass of the loop in which the terminal delivers a quit key
RunQuit ==
  \E character \in {"q", "Q"}, hook \in Hooks :
    RunIterationStep(<<"NORMAL", character>>, hook, FALSE, FALSE)

\* calls made on an item of the section the engine points at
ItemToggleStep(index) ==
  /\ current_section_index < Len(sections)
  /\ index < Len(sections[current_section_index + 1].items)
  /\ Call(item_toggle(Eng, current_section_index, index), "toggle")

ItemToggle == \E index \in ItemIndexes : ItemToggleStep(index)

ItemSetSelectedStep(index, new_state) ==
  /\ current_section_index < Len(sections)
  /\ index < Len(sections[current_section_index + 1].items)
  /\ Call(item_set_selected(Eng, current_section_index, index, new_state).eng,
          "set_selected")

ItemSetSelected ==
  \E index \in ItemIndexes, new_state \in BOOLEAN :
    ItemSetSelectedStep(index, new_state)

ClearSelections ==
  /\ current_section_index < Len(sections)
  /\ Call(clear_selections(Eng, current_section_index), "clear_selections")

SelectAll ==
  /\ current_section_index < Len(sections)
  /\ Call(select_all(Eng, current_section_index), "select_all")

InvertSelections ==
  /\ current_section_index < Len(sections)
  /\ Call(invert_selections(Eng, current_section_index), "invert_selections")

ClearAllSelections ==
  Call(clear_all_selections(Eng), "clear_all_selections")

ClearSectionSelections ==
  \E section_index \in SectionIndexes :
    Call(clear_section_selections(Eng, section_index),
         "clear_section_selections")

\* the widths a terminal reports
TermWidths == {4, 10, 14}

\* render() in SECTION_SELECTION on a terminal term_width columns wide,
\* with center_vertically off: the call of render_section_selection
RenderSectionSelectionStep(term_width) ==
  LET content_width == get_effective_content_width(Eng, term_width)
      left_padding == TruncDiv(term_width - content_width, 2)
  IN /\ current_state = SECTION_SELECTION
     /\ Call(render_section_selection(Eng, 1, left_padding, content_width),
             "render_section_selection")

RenderSectionSelection ==
  \E term_width \in TermWidths : RenderSectionSelectionStep(term_width)

\* ---------------------------------------------------------- specifications
\* the engine right after construction; the page size is configuration
\* the configuration of the specifications that do not render
PlainConfig ==
  [section_selection_title |-> << "a" >>,
   show_counters |-> TRUE,
   center_horizontally |-> TRUE,
   auto_resize_content |-> FALSE,
   min_content_width |-> 1,
   max_content_width |-> MaxWidth]

Init ==
  /\ sections = <<>>
  /\ current_state = SECTION_SELECTION
  /\ current_section_index = 0
  /\ current_selection_index = 0
  /\ current_page = 0
  /\ items_per_page \in 1..MaxPerPage
  /\ needs_redraw = TRUE
  /\ fired = <<>>
  /\ last_op = "NavigationTUI"
  /\ running = FALSE
  /\ raw_mode = FALSE
  /\ pc = "idle"
  /\ config = PlainConfig

\* the calls that move the cursor
CursorNext ==
  \/ EnterSection
  \/ ReturnToSections
  \/ GoToPage
  \/ NextPage
  \/ PreviousPage
  \/ MoveSelectionUp
  \/ MoveSelectionDown

\* the calls that act on the entry under the cursor
SelectNext ==
  \/ ToggleCurrentItem
  \/ SelectCurrentItem

NavNext == CursorNext \/ SelectNext

StructNext ==
  \/ AddSection
  \/ RemoveSection
  \/ RemoveSectionByName
  \/ ClearSections
  \/ RemoveItem
  \/ RemoveItemByName
  \/ ClearItems

\* Spec: the section collection changes under the cursor.  The selected
\* flags of the items take no part in any index computation; the calls that
\* flip them are in SpecNav.
Next == CursorNext \/ StructNext

Spec == Init /\ [][Next]_vars

\* a freshly constructed engine to which a section collection was added
\* (add_sections), the collection being fixed from then on
FixedCollections ==
  {secs \in UNION {[1..n -> {NewSection(section_name, k) :
                               section_name \in SectionNames,
                               k \in 0..MaxItems}] :
                   n \in 1..MaxSections} :
     /\ TotalItems(secs) <= MaxItems
     /\ \A k \in 1..Len(secs) : secs[k].name = SectionNameAt(k)}

InitNav ==
  /\ sections \in FixedCollections
  /\ current_state = SECTION_SELECTION
  /\ current_section_index = 0
  /\ current_selection_index = 0
  /\ current_page = 0
  /\ items_per_page \in 1..MaxPerPage
  /\ needs_redraw = TRUE
  /\ fired = <<>>
  /\ last_op = "add_sections"
  /\ running = FALSE
  /\ raw_mode = FALSE
  /\ pc = "idle"
  /\ config = PlainConfig

\* SpecNav: navigation and the calls that clear selections, over a fixed
\* collection
ClearNext == ClearAllSelections \/ ClearSectionSelections

SpecNav == InitNav /\ [][NavNext \/ ClearNext]_vars

\* SpecKeys: key events dispatched over a collection of two sections, the
\* first with several pages of items and the second with one item
KeysCollections ==
  {<< NewSection("A", MaxItems - 1), NewSection("B", 1) >>}

InitKeys ==
  /\ sections \in KeysCollections
  /\ current_state = SECTION_SELECTION
  /\ current_section_index = 0
  /\ current_selection_index = 0
  /\ current_page = 0
  /\ items_per_page \in 1..MaxPerPage
  /\ needs_redraw = TRUE
  /\ fired = <<>>
  /\ last_op = "add_sections"
  /\ running = FALSE
  /\ raw_mode = FALSE
  /\ pc = "idle"
  /\ config = PlainConfig

SpecKeys == InitKeys /\ [][HandleInput]_vars

\* the collections that have all their items in the first section
FrontCollections ==
  {secs \in FixedCollections :
     /\ Len(secs) = MaxSections
     /\ \A k \in 2..Len(secs) : Len(secs[k].items) = 0}

InitCalls ==
  /\ sections \in FrontCollections
  /\ current_state = SECTION_SELECTION
  /\ current_section_index = 0
  /\ current_selection_index = 0
  /\ current_page = 0
  /\ items_per_page \in 1..MaxPerPage
  /\ needs_redraw = TRUE
  /\ fired = <<>>
  /\ last_op = "add_sections"
  /\ running = FALSE
  /\ raw_mode = FALSE
  /\ pc = "idle"
  /\ config = PlainConfig

\* SpecCalls: calls made directly on the engine and on the section it
\* points at, over a collection from which sections and items are removed
CallsNext ==
  \/ NavNext
  \/ HandleNumberInput
  \/ ToggleItem
  \/ SetItemSelected
  \/ RemoveItem
  \/ RemoveSection

SpecCalls == InitCalls /\ [][CallsNext]_vars

\* SpecSelect: the calls that set the selected flags, made on the items of
\* a section and on the section
SelectionNext ==
  \/ ItemToggle
  \/ ItemSetSelected
  \/ ToggleItem
  \/ SetItemSelected
  \/ ClearSelections
  \/ SelectAll
  \/ InvertSelections

SpecSelect == InitCalls /\ [][SelectionNext]_vars

\* SpecLayout: the section list is drawn under every configuration of the
\* title, the counters, the centering switch and the content width
TextChars == {"a", " "}

Texts == UNION {[1..n -> TextChars] : n \in 0..MaxText}

Configs ==
  [section_selection_title : Texts,
   show_counters : BOOLEAN,
   center_horizontally : BOOLEAN,
   auto_resize_content : BOOLEAN,
   min_content_width : {1},
   max_content_width : 1..MaxWidth]

\* two sections, the second one empty, every selection of the first one's
\* items
LayoutCollections ==
  {<< [NewSection("A", 2) EXCEPT !.items[1].selected = first,
                                 !.items[2].selected = second],
      NewSection("B", 0) >> : first \in BOOLEAN, second \in BOOLEAN}

InitLayout ==
  /\ sections \in LayoutCollections
  /\ current_state = SECTION_SELECTION
  /\ current_section_index = 0
  /\ current_selection_index = 0
  /\ current_page = 0
  /\ items_per_page = 1
  /\ needs_redraw = TRUE
  /\ fired = <<>>
  /\ last_op = "add_sections"
  /\ running = FALSE
  /\ raw_mode = FALSE
  /\ pc = "idle"
  /\ config \in Configs

LayoutNext == RenderSectionSelection \/ MoveSelectionDown \/ MoveSelectionUp

SpecLayout == InitLayout /\ [][LayoutNext]_vars

\* SpecRun: run() on a freshly constructed engine, with or without
\* sections, driven by the key events of the terminal
InitRun ==
  /\ sections \in FrontCollections \cup {<<>>}
  /\ current_state = SECTION_SELECTION
  /\ current_section_index = 0
  /\ current_selection_index = 0
  /\ current_page = 0
  /\ items_per_page \in 1..MaxPerPage
  /\ needs_redraw = TRUE
  /\ fired = <<>>
  /\ last_op = "add_sections"
  /\ running = FALSE
  /\ raw_mode = FALSE
  /\ pc = "idle"
  /\ config = PlainConfig

RunNext == RunEnter \/ RunIteration \/ RunLeave

SpecRun == InitRun /\ [][RunNext]_vars

\* SpecReentrant: calls during which a user callback calls back into the
\* engine
ReentrantNext ==
  \/ EnterSectionReentered
  \/ ToggleCurrentItemReentered
  \/ HandleInputReentered

SpecReentrant == InitKeys /\ [][ReentrantNext]_vars

\* SpecRunLive: run() when no callback raises, a quit key is delivered at
\* some time and the thread of run() goes on once its loop has ended
LiveNext ==
  \/ ExitBeforeRun
  \/ RunEnter
  \/ RunIterationCalm
  \/ RunLeaveStep(FALSE)

SpecRunLive ==
  /\ InitKeys
  /\ [][LiveNext]_vars
  /\ WF_vars(RunQuit)
  /\ WF_vars(RunLeaveStep(FALSE))

\* ------------------------------------------------- vocabulary of the claims
\* These are written from the specification's words, in plain integers,
\* and do not use the engine's operators.

\* items of the section the engine points at (none when it points at none)
CurItemCount ==
  IF current_section_index < Len(sections)
  THEN Len(sections[current_section_index + 1].items)
  ELSE 0

\* page_bounds(item_count, page_size, page_index) of the current page
PageStart == current_page * items_per_page
PageEnd == Min(PageStart + items_per_page, CurItemCount)

\* number of items on page p of the current section
ItemsOnPage(p) ==
  Min((p + 1) * items_per_page, CurItemCount)
    - Min(p * items_per_page, CurItemCount)

\* total_pages: 1 for no items (and in the section list), else the least k
\* with k * page_size >= item_count
TotalPagesOf(item_count) ==
  IF item_count = 0
  THEN 1
  ELSE CHOOSE k \in 1..item_count :
         /\ k * items_per_page >= item_count
         /\ (k - 1) * items_per_page < item_count

CurTotalPages ==
  IF current_state = SECTION_SELECTION THEN 1 ELSE TotalPagesOf(CurItemCount)

navFields ==
  <<current_state, current_section_index, current_selection_index,
    current_page>>

\* ------------------------------------------------------------------ C1
\* C1 (as claimed): in every state reachable by navigation operations over
\* a fixed section collection, sections with zero items included, whenever
\* the engine is in ITEM_SELECTION,
\* 0 <= current_selection_index < page_end - page_start.
C1_SelectionWithinPage ==
  current_state = ITEM_SELECTION =>
    /\ 0 <= current_selection_index
    /\ current_selection_index < PageEnd - PageStart

\* C1 (amended): the same, for an entered section that has at least one
\* item; in a section with zero items the range [0, 0) is empty and holds
\* no index.
C1_SelectionWithinNonEmptyPage ==
  (current_state = ITEM_SELECTION /\ CurItemCount > 0) =>
    /\ 0 <= current_selection_index
    /\ current_selection_index < PageEnd - PageStart

\* moved up from page 1 to the last index of the full page 0
C1_Witness ==
  /\ current_state = ITEM_SELECTION
  /\ last_op = "move_selection_up"
  /\ fired = << <<"page_changed", 0, 2>> >>
  /\ current_page = 0
  /\ current_selection_index = 1
  /\ CurItemCount = 3

\* ------------------------------------------------------------------ C2
\* C2: in every state reachable by add_section, remove_section,
\* remove_section_by_name, clear_sections and the navigation operations, a
\* non-empty section list has current_section_index < len(sections).
C2_SectionIndexInRange ==
  Len(sections) > 0 => current_section_index < Len(sections)

\* a section was removed while the engine was inside a section, and the
\* engine now points at the last remaining section
C2_Witness ==
  /\ last_op = "remove_section"
  /\ current_state = ITEM_SELECTION
  /\ Len(sections) = 1
  /\ current_section_index = 0
  /\ sections[1].name = "A"
  /\ Len(sections[1].items) = 1

\* ------------------------------------------------------------------ C3
\* the index invariants of the data model; the bound on the selection
\* index is asked only of a section that has items
IndexInvariants ==
  /\ Len(sections) > 0 => current_section_index < Len(sections)
  /\ current_state = ITEM_SELECTION =>
       /\ PageStart <= PageEnd
       /\ PageEnd <= CurItemCount
       /\ CurItemCount > 0 =>
            /\ 0 <= current_selection_index
            /\ current_selection_index < PageEnd - PageStart

\* a step that removed a section, cleared the list, or removed items of
\* the section the engine points at
StructuralMutation ==
  /\ last_op' \in {"remove_section", "remove_section_by_name",
                   "clear_sections", "remove_item", "remove_item_by_name",
                   "clear_items"}
  /\ sections' # sections

\* C3: immediately after every structural mutation (remove_section,
\* remove_section_by_name, clear_sections, and removal of items of the
\* entered section), in either navigation state and on any page, the index
\* invariants hold again.
C3_InvariantsReestablished ==
  [][StructuralMutation => IndexInvariants']_vars

\* ------------------------------------------------------------------ C4
\* C4: from SECTION_SELECTION, enter_section(i) with i < len(sections) ends
\* in ITEM_SELECTION with current_section_index = i, selection index 0 and
\* page 0, and fires state_changed, then the section's on_enter, then
\* section_selected(i, sections[i]), in this order.
C4_EnterSection ==
  [][\A i \in SectionIndexes :
       (/\ last_op' = "enter_section"
        /\ current_state = SECTION_SELECTION
        /\ i < Len(sections)
        /\ EnterSectionStep(i))
       => /\ current_state' = ITEM_SELECTION
          /\ current_section_index' = i
          /\ current_selection_index' = 0
          /\ current_page' = 0
          /\ fired' = << <<"state_changed", SECTION_SELECTION, ITEM_SELECTION>>,
                         <<"on_enter", i>>,
                         <<"section_selected", i, sections[i + 1].name>> >>]_vars

\* the second section was entered from the section list
C4_Witness ==
  /\ last_op = "enter_section"
  /\ current_state = ITEM_SELECTION
  /\ current_section_index = 1
  /\ Len(fired) = 3
  /\ fired[1] = <<"state_changed", SECTION_SELECTION, ITEM_SELECTION>>
  /\ fired[3] = <<"section_selected", 1, "B">>

\* ------------------------------------------------------------------ C5
\* C5 (as claimed): enter_section(i) takes effect only when
\* i < len(sections) and the engine is in SECTION_SELECTION; called while
\* the engine is in ITEM_SELECTION it changes no navigation field and fires
\* no callback.
C5_NoEffectInItemSelection ==
  [][\A i \in SectionIndexes :
       (/\ last_op' = "enter_section"
        /\ current_state = ITEM_SELECTION
        /\ EnterSectionStep(i))
       => (UNCHANGED navFields /\ fired' = <<>>)]_vars

\* C5 (amended): enter_section(i) takes effect only when i < len(sections),
\* in either navigation state.  Called in ITEM_SELECTION with
\* i < len(sections) it sets current_section_index = i, resets the
\* selection index and the page to 0, stays in ITEM_SELECTION and fires
\* on_enter and then section_selected, without state_changed; with
\* i >= len(sections) it changes nothing and fires nothing.
C5_EnterSectionAnyState ==
  [][\A i \in SectionIndexes :
       (last_op' = "enter_section" /\ EnterSectionStep(i)) =>
         IF i < Len(sections)
         THEN /\ current_state' = ITEM_SELECTION
              /\ current_section_index' = i
              /\ current_selection_index' = 0
              /\ current_page' = 0
              /\ sections' = sections
              /\ current_state = ITEM_SELECTION =>
                   fired' = << <<"on_enter", i>>,
                               <<"section_selected", i, sections[i + 1].name>> >>
         ELSE /\ UNCHANGED <<sections, navFields, needs_redraw>>
              /\ fired' = <<>>]_vars

\* the second section was entered from inside a section, off page 0
C5_Witness ==
  /\ last_op = "enter_section"
  /\ fired = << <<"on_enter", 1>>, <<"section_selected", 1, "B">> >>
  /\ current_state = ITEM_SELECTION
  /\ current_section_index = 1
  /\ current_selection_index = 0
  /\ current_page = 0
  /\ Len(sections[1].items) = 2
  /\ items_per_page = 1

\* ------------------------------------------------------------------ C6
\* C6: return_to_sections() is a no-op in SECTION_SELECTION; otherwise it
\* ends in SECTION_SELECTION with current_selection_index =
\* current_section_index, page 0, and current_section_index unchanged.
C6_ReturnToSections ==
  [][last_op' = "return_to_sections" =>
       IF current_state = SECTION_SELECTION
       THEN /\ UNCHANGED <<sections, navFields, needs_redraw>>
            /\ fired' = <<>>
       ELSE /\ current_state' = SECTION_SELECTION
            /\ current_selection_index' = current_section_index
            /\ current_page' = 0
            /\ current_section_index' = current_section_index]_vars

\* the engine came back from the second section, which is now highlighted
C6_Witness ==
  /\ last_op = "return_to_sections"
  /\ fired = << <<"state_changed", ITEM_SELECTION, SECTION_SELECTION>> >>
  /\ current_state = SECTION_SELECTION
  /\ current_section_index = 1
  /\ current_selection_index = 1
  /\ current_page = 0

\* ------------------------------------------------------------------ C7
\* C7: go_to_page(p) is accepted only if 0 <= p < total_pages and
\* p # current_page; when accepted it sets current_page = p, resets the
\* selection index to 0 and fires page_changed(p, total_pages) exactly
\* once; when rejected it changes nothing and fires nothing.
C7_GoToPage ==
  [][\A p \in PageArgs :
       (last_op' = "go_to_page" /\ GoToPageStep(p)) =>
         IF 0 <= p /\ p < CurTotalPages /\ p # current_page
         THEN /\ current_page' = p
              /\ current_selection_index' = 0
              /\ fired' = << <<"page_changed", p, CurTotalPages>> >>
              /\ UNCHANGED <<sections, current_state, current_section_index>>
         ELSE /\ UNCHANGED <<sections, navFields, needs_redraw>>
              /\ fired' = <<>>]_vars

\* the engine went to the third of three pages
C7_Witness ==
  /\ last_op = "go_to_page"
  /\ fired = << <<"page_changed", 2, 3>> >>
  /\ current_state = ITEM_SELECTION
  /\ current_page = 2
  /\ current_selection_index = 0

\* ------------------------------------------------------------------ C8
\* C8: in ITEM_SELECTION, move_selection_up from index 0 of a page with
\* current_page > 0 ends on page current_page - 1 at that page's last
\* index (items on that page minus 1); move_selection_down from the last
\* index of a page that is not the last page ends on page current_page + 1
\* at index 0; a move from an index that is not at the edge of its page
\* changes the index by exactly one and leaves the page unchanged.
C8_PageCrossing ==
  [][/\ (/\ last_op' = "move_selection_up"
         /\ current_state = ITEM_SELECTION
         /\ current_selection_index = 0
         /\ current_page > 0)
        => /\ current_page' = current_page - 1
           /\ current_selection_index' = ItemsOnPage(current_page - 1) - 1
     /\ (/\ last_op' = "move_selection_down"
         /\ current_state = ITEM_SELECTION
         /\ current_selection_index = ItemsOnPage(current_page) - 1
         /\ current_page < CurTotalPages - 1)
        => /\ current_page' = current_page + 1
           /\ current_selection_index' = 0
     /\ (/\ last_op' = "move_selection_up"
         /\ current_state = ITEM_SELECTION
         /\ current_selection_index > 0)
        => /\ current_page' = current_page
           /\ current_selection_index' = current_selection_index - 1
     /\ (/\ last_op' = "move_selection_down"
         /\ current_state = ITEM_SELECTION
         /\ current_selection_index < ItemsOnPage(current_page) - 1)
        => /\ current_page' = current_page
           /\ current_selection_index' = current_selection_index + 1]_vars

\* ------------------------------------------------------------------ C9
\* C9: in ITEM_SELECTION, move_selection_up at page 0 with index 0, and
\* move_selection_down at the last index of the last page, leave the page
\* and the selection index unchanged, for every section size; in a section
\* with zero items page 0 is the first and the last page and index 0 the
\* boundary.
C9_NoWraparound ==
  [][/\ (/\ last_op' = "move_selection_up"
         /\ current_state = ITEM_SELECTION
         /\ current_page = 0
         /\ current_selection_index = 0)
        => UNCHANGED <<current_page, current_selection_index>>
     /\ (/\ last_op' = "move_selection_down"
         /\ current_state = ITEM_SELECTION
         /\ current_page = CurTotalPages - 1
         /\ current_selection_index = Max(ItemsOnPage(current_page) - 1, 0))
        => UNCHANGED <<current_page, current_selection_index>>]_vars

\* ------------------------------------------------------------------ C10
\* C10: in SECTION_SELECTION over a non-empty section list,
\* move_selection_up and move_selection_down keep current_selection_index
\* within [0, len(sections) - 1]: up at index 0 and down at index
\* len(sections) - 1 leave it unchanged, every other move changes it by
\* exactly one, and neither changes current_state, current_section_index
\* or current_page.
C10_SectionListMovement ==
  [][/\ (/\ last_op' = "move_selection_up"
         /\ current_state = SECTION_SELECTION
         /\ Len(sections) > 0)
        => /\ UNCHANGED <<current_state, current_section_index, current_page>>
           /\ current_selection_index' =
                IF current_selection_index = 0
                THEN 0
                ELSE current_selection_index - 1
           /\ current_selection_index' <= Len(sections) - 1
     /\ (/\ last_op' = "move_selection_down"
         /\ current_state = SECTION_SELECTION
         /\ Len(sections) > 0)
        => /\ UNCHANGED <<current_state, current_section_index, current_page>>
           /\ current_selection_index' =
                IF current_selection_index = Len(sections) - 1
                THEN current_selection_index
                ELSE current_selection_index + 1
           /\ current_selection_index' <= Len(sections) - 1]_vars

\* ------------------------------------------------------------------ C11
\* the engine's fields and the callbacks of the step are those of e
SameAs(e) ==
  /\ sections' = e.sections
  /\ current_state' = e.current_state
  /\ current_section_index' = e.current_section_index
  /\ current_selection_index' = e.current_selection_index
  /\ current_page' = e.current_page
  /\ fired' = e.fired

\* the invocations of the engine's item_toggled observer among evs
ItemToggledIn(evs) == SelectSeq(evs, LAMBDA ev : ev[1] = "item_toggled")

\* the item under the cursor exists
CursorOnItem ==
  /\ current_state = ITEM_SELECTION
  /\ PageStart + current_selection_index < CurItemCount

\* toggling the item under the cursor twice restores every selected flag,
\* the observer seeing the new value and then the original one
C11_TwiceRestores ==
  CursorOnItem =>
    LET a == PageStart + current_selection_index
        was == sections[current_section_index + 1].items[a + 1].selected
        e2 == toggle_current_item(toggle_current_item(Eng))
    IN /\ e2.sections = sections
       /\ ItemToggledIn(e2.fired) =
            << <<"item_toggled", current_section_index, a, ~was>>,
               <<"item_toggled", current_section_index, a, was>> >>

\* C11: toggle_current_item acts only in ITEM_SELECTION: it flips the
\* selected flag of exactly the item at absolute index
\* page_start + current_selection_index of the current section and then
\* invokes the item_toggled observer exactly once with
\* (current_section_index, that index, the new value); toggling the same
\* item twice restores its value, the observer seeing the two opposite
\* values in order; in SECTION_SELECTION it changes nothing and fires
\* nothing.
C11_ToggleCurrentItem ==
  /\ []C11_TwiceRestores
  /\ [][last_op' = "toggle_current_item" =>
         /\ CursorOnItem =>
              LET a == PageStart + current_selection_index
                  s == current_section_index + 1
                  new_state == ~sections[s].items[a + 1].selected
              IN /\ sections' =
                      [sections EXCEPT ![s].items[a + 1].selected = new_state]
                 /\ UNCHANGED navFields
                 /\ ItemToggledIn(fired') =
                      << <<"item_toggled", current_section_index, a,
                           new_state>> >>
                 /\ fired'[Len(fired')][1] = "item_toggled"
         /\ current_state = SECTION_SELECTION =>
              /\ UNCHANGED <<sections, navFields>>
              /\ fired' = <<>>]_vars

\* the third item, first on page 1, was toggled on
C11_Witness ==
  /\ last_op = "toggle_current_item"
  /\ current_state = ITEM_SELECTION
  /\ items_per_page = 2
  /\ current_page = 1
  /\ current_selection_index = 0
  /\ Len(fired) > 0
  /\ fired[Len(fired)] = <<"item_toggled", current_section_index, 2, TRUE>>
  /\ sections[current_section_index + 1].items[3].selected

\* ------------------------------------------------------------------ C12
\* C12: select_current_item in SECTION_SELECTION has exactly the effect of
\* enter_section(current_selection_index), entering the section under the
\* cursor and not the section entered before; in ITEM_SELECTION it has
\* exactly the effect of toggle_current_item.
C12_SelectCurrentItem ==
  [][last_op' = "select_current_item" =>
       /\ current_state = SECTION_SELECTION =>
            /\ SameAs(enter_section(Eng, current_selection_index))
            /\ current_selection_index < Len(sections) =>
                 /\ current_section_index' = current_selection_index
                 /\ current_state' = ITEM_SELECTION
       /\ current_state = ITEM_SELECTION =>
            SameAs(toggle_current_item(Eng))]_vars

\* the cursor was on the second section while the first one was the
\* section entered before
C12_Witness ==
  /\ last_op = "select_current_item"
  /\ current_state = ITEM_SELECTION
  /\ current_section_index = 1
  /\ Len(fired) > 0
  /\ fired[Len(fired)] = <<"section_selected", 1, "B">>

\* ------------------------------------------------------------------ C13
\* the effect the claim gives handle_number_input for the digit d
NumberInputEffect(d) ==
  IF d = 0
  THEN Eng
  ELSE IF current_state = SECTION_SELECTION
       THEN IF d - 1 < Len(sections)
            THEN enter_section(Eng, d - 1)
            ELSE Eng
       ELSE go_to_page(Eng, d - 1)

\* C13: handle_number_input(d) for a digit d in 1..9 has the effect of
\* enter_section(d - 1) in SECTION_SELECTION when d - 1 < len(sections) and
\* is a no-op there otherwise; in ITEM_SELECTION it has the effect of
\* go_to_page(d - 1); the digit 0 is a no-op in both states.
C13_HandleNumberInput ==
  [][last_op' = "handle_number_input" =>
       \A d \in 0..9 :
         HandleNumberInputStep(DigitChars[d + 1]) =>
           SameAs(NumberInputEffect(d))]_vars

\* the digit 2 entered the second section
C13_Witness ==
  /\ last_op = "handle_number_input"
  /\ current_state = ITEM_SELECTION
  /\ current_section_index = 1
  /\ Len(fired) > 0
  /\ fired[Len(fired)] = <<"section_selected", 1, "B">>

\* ------------------------------------------------------------------ C16
\* the invocations of the state_changed observer among evs
StateChangedIn(evs) == SelectSeq(evs, LAMBDA ev : ev[1] = "state_changed")

\* C16: the state_changed(old, new) observer is never invoked with
\* old = new: change_state to the state the engine is in changes nothing
\* and fires nothing, and every invocation carries the state held right
\* before and the state held right after.
C16_StateChanged ==
  /\ [](/\ \A k \in 1..Len(fired) :
            fired[k][1] = "state_changed" => fired[k][2] # fired[k][3]
        /\ change_state(Eng, current_state) = Eng)
  /\ [][\A k \in 1..Len(fired') :
         fired'[k][1] = "state_changed" =>
           /\ fired'[k][2] = current_state
           /\ fired'[k][3] = current_state'
           /\ current_state' # current_state]_vars

\* enter_section called in ITEM_SELECTION: the state stays and the
\* observer is not invoked
C16_Witness ==
  /\ last_op = "enter_section"
  /\ current_state = ITEM_SELECTION
  /\ Len(fired) = 2
  /\ StateChangedIn(fired) = <<>>

\* ------------------------------------------------------------------ C17
\* absolute index of the cursor, a size_t
AbsIndex == (PageStart + current_selection_index) % SizeMod

\* nothing changed and nothing was invoked
NoOp ==
  /\ UNCHANGED <<sections, navFields>>
  /\ fired' = <<>>

\* the calls that return a value return false for an index out of range
C17_ReturnFalse ==
  /\ \A i \in SectionIndexes :
       i >= Len(sections) => ~remove_section_returns(Eng, i)
  /\ current_section_index < Len(sections) =>
       \A i \in ItemIndexes :
         i >= CurItemCount =>
           /\ ~toggle_item(Eng, current_section_index, i).ret
           /\ ~remove_item(Eng, current_section_index, i).ret
           /\ \A selected \in BOOLEAN :
                ~set_item_selected(Eng, current_section_index, i, selected).ret

Displayed(e) ==
  <<e.sections, e.current_state, e.current_section_index,
    e.current_selection_index, e.current_page>>

\* the calls on the terminal manager among the entries of fired
TerminalCalls ==
  {"setup_terminal", "restore_terminal", "render", "get_key_input"}

\* the callback invocations among evs
CallbacksIn(evs) == SelectSeq(evs, LAMBDA ev : ev[1] \notin TerminalCalls)

InLoop == pc = "loop" /\ running

\* C14: a key event whose character is 'q' or 'Q' sets running to false
\* in either navigation state and changes no navigation field and no item
\* selection.
C14_QuitKey ==
  /\ [](InLoop =>
         \A key_event \in KeyEvents, hook \in Hooks :
           key_event[2] \in {"q", "Q"} =>
             LET r == run_iteration(Eng, key_event, hook, FALSE)
             IN /\ ~r.running
                /\ Displayed(r) = Displayed(Eng))
  /\ [][(last_op' = "run_iteration" /\ running /\ ~running') =>
         UNCHANGED <<sections, navFields>>]_vars

\* the loop was left by a quit key pressed inside a section with a
\* selected item
C14_Witness ==
  /\ last_op = "run_iteration"
  /\ pc = "loop"
  /\ ~running
  /\ current_state = ITEM_SELECTION
  /\ CurItemCount > 0
  /\ sections[current_section_index + 1].items[1].selected

\* ------------------------------------------------------------------ C15
\* the custom command callback is the first callback invoked for the
\* event, with the character and the state at that time, and when it
\* reports the event handled the engine is left as the callback left it
HookConsulted(key_event, hook) ==
  LET r == run_iteration(Eng, key_event, hook, TRUE)
      cbs == CallbacksIn(r.fired)
  IN /\ Len(cbs) >= 1
     /\ cbs[1] = <<"custom_command", key_event[2], current_state>>
     /\ HookHandled(hook) =>
          /\ Len(cbs) = 1
          /\ Displayed(r) = Displayed(HookEffect(Eng, hook))

\* C15 (as claimed): for every input event delivered to handle_input the
\* custom_command hook, when set, is invoked with the event's character
\* and the current state before any state-specific handling, and if it
\* returns true no state-specific handling runs for that event.
C15_HookOnEveryEvent ==
  InLoop =>
    \A key_event \in KeyEvents, hook \in Hooks \ {"unset"} :
      HookConsulted(key_event, hook)

\* C15 (amended): the same for every input event whose character is not
\* the quit character; for 'q' and 'Q' the hook is not invoked.
C15_HookOnEveryEventButQuit ==
  InLoop =>
    \A key_event \in KeyEvents, hook \in Hooks \ {"unset"} :
      IF key_event[2] \in {"q", "Q"}
      THEN CallbacksIn(run_iteration(Eng, key_event, hook, TRUE).fired) = <<>>
      ELSE HookConsulted(key_event, hook)

\* the hook reported 'a' handled inside a section: no item was selected
C15_Witness ==
  /\ last_op = "run_iteration"
  /\ pc = "loop"
  /\ current_state = ITEM_SELECTION
  /\ CurItemCount > 0
  /\ \A k \in 1..CurItemCount :
       ~sections[current_section_index + 1].items[k].selected
  /\ Len(fired) > 0
  /\ fired[Len(fired)] = <<"custom_command", "a", ITEM_SELECTION>>

\* ------------------------------------------------------------------ C18
\* C18: run() with zero sections returns without starting the loop: the
\* terminal is not put into raw mode (no setup_terminal), no key event is
\* read, no render pass happens, and no navigation field changes.
C18_RunWithoutSections ==
  [][(last_op' = "run_enter" /\ Len(sections) = 0) =>
       /\ pc' = "returned"
       /\ fired' = <<>>
       /\ ~raw_mode'
       /\ ~running'
       /\ UNCHANGED <<sections, navFields>>]_vars

\* run() returned at once
C18_Witness ==
  /\ last_op = "run_enter"
  /\ pc = "returned"
  /\ sections = <<>>

\* ------------------------------------------------------------------ C19
\* C19: an exception raised by a user-supplied callback while the run loop
\* is active propagates out of run() and the terminal is restored on that
\* path: no exit from run() after setup_terminal, normal or exceptional,
\* leaves the terminal in raw mode.
C19_TerminalRestoredOnExit ==
  pc \in {"returned", "unwound"} => ~raw_mode

\* ------------------------------------------------------------------ C20
\* C20: in the run loop the key events are handled one at a time, and
\* whenever handling an event changed displayed state (current_state,
\* current_section_index, current_selection_index, current_page or an
\* item's selected flag) the redraw flag is set at the end of the event,
\* so that a render pass runs before the next key event is read.
C20_RedrawAfterChange ==
  [][(/\ last_op' = "run_iteration"
      /\ pc' = "loop"
      /\ <<sections, navFields>>' # <<sections, navFields>>)
     => needs_redraw']_vars

\* ------------------------------------------------------------------ C21
\* C21: once running is false during the loop (quit key, or exit() called
\* from a callback), the loop ends after the current iteration: no further
\* key event is read and no further render pass happens, then the terminal
\* is restored exactly once, and only after that the exit observer is
\* invoked exactly once with the final section collection.
C21_LoopEnds ==
  [][(pc = "loop" /\ ~running) =>
       /\ last_op' = "run_leave"
       /\ fired' = << <<"restore_terminal">>, <<"on_exit", sections>> >>
       /\ ~raw_mode'
       /\ pc' \in {"returned", "unwound"}
       /\ UNCHANGED <<sections, navFields>>]_vars

\* run() returned after the loop was stopped inside a section with a
\* selected item: the exit observer received that collection
C21_Witness ==
  /\ last_op = "run_leave"
  /\ pc = "returned"
  /\ ~raw_mode
  /\ current_state = ITEM_SELECTION
  /\ CurItemCount > 0
  /\ sections[current_section_index + 1].items[1].selected
  /\ fired = << <<"restore_terminal">>, <<"on_exit", sections>> >>

\* ------------------------------------------------------------------ C22
\* ceil(n / k) for n > 0, k >= 1: the least number of pages of k entries
\* that hold n entries
CeilDiv(n, k) == CHOOSE c \in 1..n : c * k >= n /\ (c - 1) * k < n

\* an engine inside a section of item_count items with the given page size
EngInSection(item_count, page_size) ==
  [Eng EXCEPT !.sections = <<NewSection("A", item_count)>>,
              !.current_state = ITEM_SELECTION,
              !.current_section_index = 0,
              !.items_per_page = page_size]

\* C22: for the section entered in ITEM_SELECTION the total number of
\* pages is 1 when the section has no items and ceil(item_count /
\* items_per_page) otherwise, for every item count and every page size
\* >= 1 (25 items with page size 10 give 3 pages).
C22_TotalPages ==
  /\ current_state = ITEM_SELECTION =>
       calculate_total_pages(Eng) =
         IF CurItemCount = 0 THEN 1 ELSE CeilDiv(CurItemCount, items_per_page)
  /\ calculate_total_pages(EngInSection(25, 10)) = 3

\* inside a section whose last page is not full
C22_Witness ==
  /\ current_state = ITEM_SELECTION
  /\ CurItemCount = 3
  /\ items_per_page = 2

\* ------------------------------------------------------------------ C23
\* C23: the bounds of the current page are (start, end) =
\* (current_page * items_per_page, min(start + items_per_page, item_count))
\* and satisfy start <= end <= item_count and end - start <=
\* items_per_page in every reachable ITEM_SELECTION state (25 items, page
\* size 10, page 2 give (20, 25)).
C23_PageBounds ==
  /\ current_state = ITEM_SELECTION =>
       LET bounds == get_current_page_bounds(Eng)
           start == bounds[1]
           end == bounds[2]
       IN /\ start = current_page * items_per_page
          /\ end = Min(start + items_per_page, CurItemCount)
          /\ start <= end
          /\ end <= CurItemCount
          /\ end - start <= items_per_page
  /\ get_current_page_bounds([EngInSection(25, 10) EXCEPT !.current_page = 2])
       = <<20, 25>>

CurFlags ==
  [k \in 1..CurItemCount |->
     sections[current_section_index + 1].items[k].selected]

\* set_selected applied twice with the same value: the second call
\* changes nothing, returns false and invokes nothing
C25_Idempotent ==
  current_section_index < Len(sections) =>
    \A i \in 0..(CurItemCount - 1), v \in BOOLEAN :
      LET first == item_set_selected(Eng, current_section_index, i, v)
          second == item_set_selected(first.eng, current_section_index, i, v)
      IN /\ first.ret = (CurFlags[i + 1] # v)
         /\ ~second.ret
         /\ second.eng = first.eng
         /\ Len(second.eng.fired) <= 1

\* C25: set_selected(v) of an item with v equal to the selected value
\* changes nothing, returns false and does not invoke on_toggle; with v
\* different it sets selected = v, returns true and invokes on_toggle
\* exactly once with v; applied twice with the same value it fires the
\* callback at most once.
C25_SetSelected ==
  /\ []C25_Idempotent
  /\ [][last_op' = "set_selected" =>
         \A i \in 0..(CurItemCount - 1), v \in BOOLEAN :
           ItemSetSelectedStep(i, v) =>
             IF CurFlags[i + 1] = v
             THEN NoOp
             ELSE /\ sections' =
                       [sections EXCEPT
                          ![current_section_index + 1].items[i + 1].selected = v]
                  /\ fired' = << <<"on_toggle", current_section_index, i, v>> >>
                  /\ UNCHANGED navFields]_vars

\* set_selected(true) was called on the second item, which was selected
\* already
C25_Witness ==
  /\ last_op = "set_selected"
  /\ fired = <<>>
  /\ CurItemCount >= 2
  /\ CurFlags[2]

\* ------------------------------------------------------------------ C26
\* the invocations of the section's on_item_toggled callback among evs
OnItemToggledIn(evs) == SelectSeq(evs, LAMBDA ev : ev[1] = "on_item_toggled")

\* the step invoked on_item_toggled once, with (index, new value), for
\* every item whose flag it changed and for no other
NotifiedForEachChange ==
  LET s == current_section_index
      cbs == OnItemToggledIn(fired')
      changed == {k \in 1..CurItemCount :
                    sections'[s + 1].items[k].selected # CurFlags[k]}
  IN /\ Len(sections'[s + 1].items) = CurItemCount
     /\ Len(cbs) = Cardinality(changed)
     /\ \A k \in changed :
          \E j \in 1..Len(cbs) :
            cbs[j] = <<"on_item_toggled", s, k - 1,
                       sections'[s + 1].items[k].selected>>

\* C26: for toggle_item, set_item_selected, clear_selections, select_all
\* and invert_selections the section's on_item_toggled callback is invoked
\* exactly once, with (index, new selected value), for every item whose
\* flag the operation changed, and not for an item whose flag it left;
\* item.toggle and item.set_selected called on an item never invoke it.
C26_OnItemToggled ==
  [][/\ last_op' \in {"toggle_item", "set_item_selected", "clear_selections",
                      "select_all", "invert_selections"}
        => NotifiedForEachChange
     /\ last_op' \in {"toggle", "set_selected"}
        => OnItemToggledIn(fired') = <<>>]_vars

\* select_all on a section of three items of which the second was
\* selected: the callback was invoked for the first and the third
C26_Witness ==
  /\ last_op = "select_all"
  /\ CurItemCount = 3
  /\ OnItemToggledIn(fired) =
       << <<"on_item_toggled", current_section_index, 0, TRUE>>,
          <<"on_item_toggled", current_section_index, 2, TRUE>> >>

\* ------------------------------------------------------------------ C27
\* the navigation state has its initial values
InitialNavState ==
  /\ current_state = SECTION_SELECTION
  /\ current_section_index = 0
  /\ current_selection_index = 0
  /\ current_page = 0

\* C27: the navigation state is {SECTION_SELECTION, 0, 0, 0} right after
\* construction, and clear_sections() called in any reachable state
\* returns it to exactly those values with an empty section list.
C27_ClearResets ==
  /\ InitialNavState
  /\ [][last_op' = "clear_sections" =>
         /\ InitialNavState'
         /\ sections' = <<>>
         /\ UNCHANGED <<items_per_page, running, raw_mode, pc>>]_vars

\* clear_sections is about to be called in ITEM_SELECTION on a later page
\* with a cursor and a section index that are not 0, and resets all four
C27_Witness ==
  /\ current_state = ITEM_SELECTION
  /\ current_page > 0
  /\ current_section_index > 0
  /\ current_selection_index > 0
  /\ LET r == clear_sections(Eng)
     IN /\ r.sections = <<>>
        /\ r.current_state = SECTION_SELECTION
        /\ r.current_section_index = 0
        /\ r.current_selection_index = 0
        /\ r.current_page = 0

\* ------------------------------------------------------------------ C28
\* the strings the last call wrote, in order
Emitted ==
  LET couts == SelectSeq(fired, LAMBDA ev : ev[1] = "cout")
  IN [k \in 1..Len(couts) |-> couts[k][2]]

\* the content widths the renderer may have drawn with
WidthsUsed == {get_effective_content_width(Eng, t) : t \in TermWidths}

\* line centered in width as the layout contract states it
Centered(line, width) ==
  LET half == (width - Len(line)) \div 2
      padding == IF half > 0 THEN half ELSE 0
  IN [k \in 1..padding |-> " "] \o line

NoSpace(text) == \A k \in 1..Len(text) : text[k] # " "

Rendered == last_op = "render_section_selection"

RECURSIVE StripLeft(_)
StripLeft(line) ==
  IF Len(line) > 0 /\ line[1] = " " THEN StripLeft(Tail(line)) ELSE line

\* C29: the layout step never emits a line whose content, the centering
\* padding left out, is longer than the width, unless the line is one
\* word with no space in it.
C29_NoLineWiderThanWidth ==
  Rendered =>
    \E width \in WidthsUsed :
      \A k \in 1..Len(Emitted) :
        \/ Len(StripLeft(Emitted[k])) <= width
        \/ NoSpace(StripLeft(Emitted[k]))

\* ------------------------------------------------------------------ C30
\* C30: with layout.center_horizontally = false every text is written
\* unchanged, with no padding before it.
C30_NoCenteringWhenDisabled ==
  (Rendered /\ ~config.center_horizontally) =>
    Emitted = section_selection_texts(Eng)

\* ------------------------------------------------------------------ C32
\* names of the sections and of their items, in order
Shape(secs) ==
  [s \in 1..Len(secs) |->
     <<secs[s].name,
       [k \in 1..Len(secs[s].items) |-> secs[s].items[k].name]>>]

\* the engine e has the cursor and the collection's shape of this state
CursorKept(e) ==
  /\ e.current_state = current_state
  /\ e.current_section_index = current_section_index
  /\ e.current_selection_index = current_selection_index
  /\ e.current_page = current_page
  /\ Shape(e.sections) = Shape(sections)

\* C32: toggle_current_item, the 'a' and 'n' keys in ITEM_SELECTION,
\* clear_all_selections and clear_section_selections leave current_state,
\* current_section_index, current_selection_index and current_page
\* unchanged and leave the number and order of sections and items
\* unchanged.
C32_SelectionKeepsCursor ==
  /\ [](current_state = ITEM_SELECTION =>
          \A character \in {"a", "n"}, hook \in {"unset", "decline"} :
            CursorKept(handle_input(Eng, "NORMAL", character, hook, FALSE)))
  /\ [][last_op' \in {"toggle_current_item", "clear_all_selections",
                      "clear_section_selections"} =>
         /\ UNCHANGED navFields
         /\ Shape(sections') = Shape(sections)]_vars

\* clear_all_selections cleared a selected item while the cursor was on a
\* later page of a section
C32_Witness ==
  /\ last_op = "clear_all_selections"
  /\ current_state = ITEM_SELECTION
  /\ current_page > 0
  /\ Len(fired) > 0

\* ------------------------------------------------------------------ C33
\* C33: in every reachable state in SECTION_SELECTION with a section list
\* that is not empty, current_selection_index < len(sections), so that
\* select_current_item enters an existing section.
C33_SectionCursorInRange ==
  (current_state = SECTION_SELECTION /\ Len(sections) > 0) =>
    /\ current_selection_index < Len(sections)
    /\ select_current_item(Eng).current_state = ITEM_SELECTION

\* ------------------------------------------------------------------ C34
\* the callbacks among evs other than the custom command callback
NonHook(evs) == SelectSeq(evs, LAMBDA ev : ev[1] # "custom_command")

EnterKey == KeyOp(<<"ENTER", "NUL">>)
SpaceKey == KeyOp(<<"SPACE", "NUL">>)
SelectAllKey == KeyOp(<<"NORMAL", "a">>)
ClearKey == KeyOp(<<"NORMAL", "n">>)

\* C34: through key dispatch ENTER in ITEM_SELECTION has the effect of
\* return_to_sections and toggles no item; ENTER in SECTION_SELECTION
\* enters the highlighted section; SPACE in SECTION_SELECTION changes
\* nothing; no key but SPACE toggles an item.
C34_EnterAndSpace ==
  [][/\ (last_op' = EnterKey /\ current_state = ITEM_SELECTION) =>
          /\ current_state' = SECTION_SELECTION
          /\ current_selection_index' = current_section_index
          /\ current_page' = 0
          /\ UNCHANGED <<sections, current_section_index>>
          /\ NonHook(fired') = return_to_sections(Eng).fired
     /\ (last_op' = EnterKey /\ current_state = SECTION_SELECTION) =>
          /\ current_state' = ITEM_SELECTION
          /\ current_section_index' = current_selection_index
          /\ current_selection_index' = 0
          /\ current_page' = 0
          /\ UNCHANGED sections
     /\ (last_op' = SpaceKey /\ current_state = SECTION_SELECTION) =>
          /\ UNCHANGED <<sections, navFields>>
          /\ NonHook(fired') = <<>>
     /\ last_op' # SpaceKey =>
          /\ ItemToggledIn(fired') = <<>>
          /\ last_op' \notin {SelectAllKey, ClearKey} => UNCHANGED sections]_vars

\* ENTER was pressed in ITEM_SELECTION in the second section, in which an
\* item is selected
C34_Witness ==
  /\ last_op = EnterKey
  /\ current_state = SECTION_SELECTION
  /\ current_selection_index = 1
  /\ NonHook(fired) = << <<"state_changed", ITEM_SELECTION, SECTION_SELECTION>> >>
  /\ \E k \in 1..Len(sections[2].items) : sections[2].items[k].selected

\* ------------------------------------------------------------------ C35
DigitKeys == {"0", "1", "2", "9"}

\* C35: through key dispatch a digit key has the effect of
\* handle_number_input in SECTION_SELECTION only; in ITEM_SELECTION it
\* changes no navigation field, no item and fires no observer.
C35_DigitsInSectionListOnly ==
  [][\A digit \in DigitKeys :
       last_op' = KeyOp(<<"NORMAL", digit>>) =>
         IF current_state = ITEM_SELECTION
         THEN /\ UNCHANGED <<sections, navFields>>
              /\ NonHook(fired') = <<>>
         ELSE LET r == handle_number_input(Eng, digit)
              IN /\ Displayed(r) = <<sections', current_state',
                                     current_section_index',
                                     current_selection_index', current_page'>>
                 /\ NonHook(fired') = r.fired]_vars

\* the digit 1 was pressed in ITEM_SELECTION on a later page, and the
\* page is still the later one
C35_Witness ==
  /\ last_op = KeyOp(<<"NORMAL", "1">>)
  /\ current_state = ITEM_SELECTION
  /\ current_page > 0
  /\ NonHook(fired) = <<>>

\* ------------------------------------------------------------------ C37
\* every item of the section the engine points at has flag v afterwards,
\* and the items of the other sections are as they were
AllSetTo(v) ==
  /\ Shape(sections') = Shape(sections)
  /\ \A s \in 1..Len(sections) :
       IF s = current_section_index + 1
       THEN \A k \in 1..Len(sections[s].items) :
              sections'[s].items[k].selected = v
       ELSE sections'[s] = sections[s]

\* C37: in ITEM_SELECTION the 'a' key ends with every item of the current
\* section selected and the 'n' key with every item unselected, on all
\* pages, leaving the items of every other section unchanged; the section
\* callback on_item_toggled is invoked for each changed item and the
\* engine's item_toggled observer is not invoked.
C37_BulkKeys ==
  [][(current_state = ITEM_SELECTION /\ last_op' \in {SelectAllKey, ClearKey}) =>
       /\ AllSetTo(last_op' = SelectAllKey)
       /\ NotifiedForEachChange
       /\ ItemToggledIn(fired') = <<>>
       /\ UNCHANGED navFields]_vars

\* 'a' was pressed on a later page of the first section and selected at
\* least two items; the item of the second section is not selected
C37_Witness ==
  /\ last_op = SelectAllKey
  /\ current_state = ITEM_SELECTION
  /\ current_section_index = 0
  /\ current_page > 0
  /\ Len(OnItemToggledIn(fired)) >= 2
  /\ \A k \in 1..Len(sections[1].items) : sections[1].items[k].selected
  /\ ~sections[2].items[1].selected

\* ------------------------------------------------------------------ C36
\* C36: a toggle_current_item that toggles an item invokes, in this order
\* and once each, the item's on_toggle(new), the section's
\* on_item_toggled(absolute index, new) and the engine's
\* item_toggled(section index, absolute index, new), where new is the
\* item's selected flag after the operation.
C36_CallbackOrder ==
  [][last_op' = "toggle_current_item" =>
       IF CursorOnItem
       THEN LET s == current_section_index
                new == sections'[s + 1].items[AbsIndex + 1].selected
            IN /\ new = ~sections[s + 1].items[AbsIndex + 1].selected
               /\ fired' = << <<"on_toggle", s, AbsIndex, new>>,
                              <<"on_item_toggled", s, AbsIndex, new>>,
                              <<"item_toggled", s, AbsIndex, new>> >>
       ELSE fired' = <<>>]_vars

\* the selected item at absolute index 1 or more of the second page was
\* toggled back
C36_Witness ==
  /\ last_op = "toggle_current_item"
  /\ current_page > 0
  /\ Len(fired) = 3
  /\ fired[1][1] = "on_toggle" /\ fired[1][4] = FALSE
  /\ fired[3][1] = "item_toggled" /\ fired[3][3] = AbsIndex

\* ------------------------------------------------------------------ C38
\* C38: clear_sections() called in ITEM_SELECTION moves the engine to
\* SECTION_SELECTION without invoking the state_changed observer, while
\* every state change made by enter_section and return_to_sections
\* invokes it exactly once.
C38_ClearSkipsObserver ==
  [][/\ (last_op' = "clear_sections" /\ current_state = ITEM_SELECTION) =>
          /\ current_state' = SECTION_SELECTION
          /\ StateChangedIn(fired') = <<>>
     /\ (/\ last_op' \in {"enter_section", "return_to_sections"}
         /\ current_state' # current_state) =>
          StateChangedIn(fired') =
            << <<"state_changed", current_state, current_state'>> >>]_vars

\* the engine is in ITEM_SELECTION and clear_sections changes the state
\* from here without an invocation
C38_Witness ==
  /\ current_state = ITEM_SELECTION
  /\ Len(sections) > 0
  /\ clear_sections(Eng).current_state = SECTION_SELECTION
  /\ clear_sections(Eng).fired = <<>>
  /\ return_to_sections(Eng).fired =
       << <<"state_changed", ITEM_SELECTION, SECTION_SELECTION>> >>

\* ------------------------------------------------------------------ C39
\* the invocations of Section::trigger_exit and of on_enter among evs
TriggerExitIn(evs) == SelectSeq(evs, LAMBDA ev : ev[1] = "trigger_exit")
OnEnterIn(evs) == SelectSeq(evs, LAMBDA ev : ev[1] = "on_enter")

\* the keys that leave a section, and the quit key
LeavingKeys ==
  {<<"ESCAPE", "NUL">>, <<"ENTER", "NUL">>, <<"NORMAL", "b">>,
   <<"KEY_H", "h">>, <<"NORMAL", "q">>}

SessionEnded ==
  /\ pc = "returned"
  /\ ~raw_mode
  /\ last_op = "run_leave"
  /\ fired = << <<"restore_terminal">>, <<"on_exit", sections>> >>

\* C40: once run() is in its loop it ends only with running false; when a
\* quit key eventually arrives and no callback raises, the session
\* eventually restores the terminal and calls the exit observer; an empty
\* key read does not end the loop; exit() called before run() does not
\* keep the loop from starting.
C40_RunTerminates ==
  /\ (pc = "loop") ~> SessionEnded
  /\ [](InLoop =>
          \A hook \in {"unset", "decline", "handled"} :
            run_iteration(Eng, <<>>, hook, FALSE).running)
  /\ [][/\ (pc = "loop" /\ pc' # "loop") => (~running /\ SessionEnded')
        /\ (pc = "loop" /\ running /\ ~running') =>
             \/ last_op' = "run_iteration" /\ CallbacksIn(fired') = <<>>
             \/ \E k \in 1..Len(fired') : fired'[k][1] = "custom_command"
        /\ (last_op = "exit" /\ last_op' = "run_enter" /\ Len(sections) > 0)
             => (pc' = "loop" /\ running')]_vars

\* exit() was called before run(), the loop ran and the session ended in
\* the section list with its sections
C40_Witness ==
  /\ SessionEnded
  /\ Len(sections) > 0
  /\ current_state = SECTION_SELECTION
  /\ current_selection_index > 0

\* ------------------------------------------------------------------ C31
\* C31: no engine operation reads the section list or an item list out of
\* range, or through an element that is no longer in the collection, also
\* when a user callback invoked in the middle of the operation calls
\* remove_section, clear_sections or removes items.
C31_NoInvalidRead ==
  /\ pc # "crashed"
  /\ \A k \in 1..Len(fired) : fired[k][1] # "invalid_read"

====
